---- MODULE Spec2Model ----
(***************************************************************************)
(* Git-data retrieval and caching subsystem of the GitLens extension       *)
(* (src/git/gitService.ts): the per-document cache of blame/diff/log       *)
(* promises, the paginated Log continuations, the previous/next            *)
(* navigation helpers and the repository change handler.                   *)
(***************************************************************************)
EXTENDS Integers, Sequences, FiniteSets, TLC

\* ------------------------------------------------------------------ bounds
NumTasks == 3
HistLen == 3
MaxListItems == 2
MaxSearchItems == 2
MaxResets == 1
NumPathCalls == 1

Tasks == 1..NumTasks

\* ------------------------------------------------------------- basic values
Undef == "undefined"
None == <<>>
Some(x) == <<x>>

Min(a, b) == IF a < b THEN a ELSE b

deletedOrMissingSha == "deletedOrMissing"
uncommittedSha == "uncommitted"
uncommittedStagedSha == "uncommittedStaged"

emptyStr == ""

\* the value every promise of an absent result resolves to
UndefV == [kind |-> "undefined"]

\* emptyPromise: the one module-level promise already resolved to undefined
emptyPromise == 0

\* --------------------------------------------------------- the repository
\* The file's history as the tool reports it, newest first: c3, c2, c1.
Commit(i) == "c" \o ToString(i)
Hist == [i \in 1..HistLen |-> Commit(HistLen + 1 - i)]

Parent(ref) == ref \o "^"
UntilRange(until, ref) == until \o "^.." \o ref \o "^"

\* position in Hist a revision expression starts at (0: not a revision)
RefStart(ref) ==
    IF ref = Undef THEN 1
    ELSE IF \E i \in 1..HistLen : ref = Hist[i]
         THEN CHOOSE i \in 1..HistLen : ref = Hist[i]
    ELSE IF \E i \in 1..HistLen : ref = Parent(Hist[i])
         THEN (CHOOSE i \in 1..HistLen : ref = Parent(Hist[i])) + 1
    ELSE 0

\* position of the newest commit a range until^..ref^ leaves out (0: a plain ref)
RefStop(ref) ==
    IF \E i, j \in 1..HistLen : ref = UntilRange(Hist[j], Hist[i])
    THEN (CHOOSE j \in 1..HistLen : \E i \in 1..HistLen : ref = UntilRange(Hist[j], Hist[i])) + 1
    ELSE 0

RangeStart(ref) ==
    IF \E i, j \in 1..HistLen : ref = UntilRange(Hist[j], Hist[i])
    THEN (CHOOSE i \in 1..HistLen : \E j \in 1..HistLen : ref = UntilRange(Hist[j], Hist[i])) + 1
    ELSE RefStart(ref)

RECURSIVE Reverse(_)
Reverse(s) == IF s = <<>> THEN <<>> ELSE Append(Reverse(Tail(s)), Head(s))

\* the commits the log subprocess prints for (ref, limit): from the start of
\* ref towards older commits, at most limit of them (limit 0: all of them)
LogData(ref, limit, reverse, skip) ==
    LET start == IF RangeStart(ref) = 0 THEN 0 ELSE RangeStart(ref) + skip
        stop  == IF RefStop(ref) = 0 THEN HistLen + 1 ELSE RefStop(ref)
        avail == IF start = 0 \/ start >= stop THEN <<>> ELSE SubSeq(Hist, start, stop - 1)
        page  == IF limit = 0 THEN avail ELSE SubSeq(avail, 1, Min(limit, Len(avail)))
    IN [commits |-> IF reverse THEN Reverse(page) ELSE page,
        truncated |-> limit # 0 /\ Len(avail) > limit]


\* ---------------------------------------------------------------- requests
\* One retrieval request: the operation and the parameters its cache key is
\* built from. limit is the page size after defaulting (0: no limit).
Req(op, sha, ref1, ref2, ref, limit, reverse, range) ==
    [ref |-> ref, limit |-> limit, reverse |-> reverse, skip |-> 0,
     op |-> op, sha |-> sha, ref1 |-> ref1, ref2 |-> ref2,
     range |-> range, renames |-> TRUE]

BlameReq(sha) == Req("blame", sha, Undef, Undef, Undef, 0, FALSE, FALSE)
BlameContentsReq(hash) == Req("blameContents", hash, Undef, Undef, Undef, 0, FALSE, FALSE)
DiffReq(ref1, ref2) == Req("diff", Undef, ref1, ref2, Undef, 0, FALSE, FALSE)
\* options.limit == null ? maxListItems || 0 : options.limit
LogFileReq(ref, limit, reverse, range) ==
    Req("logFile", Undef, Undef, Undef, ref,
        IF limit = None THEN MaxListItems ELSE limit[1], reverse, range)

\* options.limit ?? maxListItems ?? 0
LogReq(ref, limit) ==
    Req("log", Undef, Undef, Undef, ref,
        IF limit = None THEN MaxListItems ELSE limit[1], FALSE, FALSE)
\* options.limit ?? maxSearchItems ?? 0
SearchReq(limit, skip) ==
    [Req("search", Undef, Undef, Undef, Undef,
         IF limit = None THEN MaxSearchItems ELSE limit[1], FALSE, FALSE)
     EXCEPT !.skip = skip]

NoReq == Req("none", Undef, Undef, Undef, Undef, 0, FALSE, FALSE)

\* -------------------------------------------------------------- cache keys
BlameKey(r) == "blame" \o (IF r.sha # Undef THEN ":" \o r.sha ELSE emptyStr)

BlameContentsKey(r) == "blame:" \o r.sha

DiffKey(r) ==
    "diff" \o (IF r.ref1 # Undef THEN ":" \o r.ref1 ELSE emptyStr)
           \o (IF r.ref2 # Undef THEN ":" \o r.ref2 ELSE emptyStr)

LogKey(r) ==
    "log" \o (IF r.ref # Undef THEN ":" \o r.ref ELSE emptyStr)
          \o (IF r.limit # 0 THEN ":n" \o ToString(r.limit) ELSE emptyStr)
          \o (IF r.renames THEN ":follow" ELSE emptyStr)
          \o (IF r.reverse THEN ":reverse" ELSE emptyStr)

\* the key the log of the whole file is cached under
WholeLogKey(r) ==
    "log" \o (IF r.renames THEN ":follow" ELSE emptyStr)
          \o (IF r.reverse THEN ":reverse" ELSE emptyStr)

Key(r) ==
    CASE r.op = "blame" -> BlameKey(r)
      [] r.op = "blameContents" -> BlameContentsKey(r)
      [] r.op = "diff" -> DiffKey(r)
      [] OTHER -> LogKey(r)

\* cache key of the tracked-file cache: the path, then the revision
TrackedRef(r) == IF r.op = "logFile" THEN r.ref ELSE IF r.op = "blame" THEN r.sha ELSE Undef

TrackedKey(r) ==
    "file" \o (IF TrackedRef(r) # Undef THEN ":" \o TrackedRef(r) ELSE emptyStr)

\* -------------------------------------------------------------------- state
VARIABLES
    useCaching,    \* Container.config.advanced.caching.enabled
    fileTracked,   \* whether the file is under version control
    docState,      \* the tracked document's state: [defined, map: key -> entry]
    trackedCache,  \* GitService._trackedCache: key -> value or pending promise
    pc,            \* where each call stands
    req,           \* the request each call makes
    cont,          \* for a call of a Log's more continuation: what it is bound to
    ret,           \* the promise or value the retrieval returned to the call
    out,           \* the value a more continuation resolved to
    core,          \* the promise of each call's ...Core function
    ls,            \* the promise of each call's isTrackedCore
    waitTrk,       \* what a call's isTracked awaits
    logs,          \* the Log objects created so far; a Log's identity is its index
    spawned,       \* history: the blame/diff/log subprocess each call invoked
    outcome,       \* history: how each call's subprocess ended
    liveAt,        \* history: the calls in flight when each call was issued
    resetSeen,     \* history: the calls during which the document state was reset
    resets,        \* history: number of state resets
    nav,           \* the navigation call made: its arguments, subprocess calls and result
    branchesCache, \* GitService._branchesCache: repository path -> branches
    tagsCache,     \* GitService._tagsCache: repository path -> tags
    userMapCache,  \* GitService._userMapCache: repository path -> user or null
    fetching,      \* the branches / tags / user lookups in flight
    pendingFire,   \* setImmediate callbacks queued to fire repositories-changed
    notified,      \* history: number of repositories-changed notifications fired
    lastEvent,     \* history: the last repository change event handled, and their number
    served,        \* history: the lookups answered from a memoized value
    overtaken,     \* history: the fetches a change event of their repository overtook
    repositoryTree, \* GitService._repositoryTree: path -> Repository
    repoPaths,     \* the Repository objects created so far: the path of each
    disposed,      \* history: how many times each Repository was disposed
    handler,       \* the onWorkspaceFoldersChanged call in progress
    pathCalls,     \* the getRepoPath calls: where each stands and what it returned
    folderEvents,  \* history: number of workspace-folder events handled
    lastRemoval,   \* history: the folders the last handled event removed
    suspended,     \* GitService._suspended
    repoSuspended, \* the Repository objects created so far: whether each is suspended
    created,       \* repositories of the repositorySearch in flight: path -> suspended
    results,       \* CommitsQueryResults.log of the compare node: the Log held (0: none)
    util           \* the synchronous or one-shot call made: its arguments and result

navVars == <<nav>>

repoVars == <<branchesCache, tagsCache, userMapCache, fetching, pendingFire, notified, lastEvent>>

focusVars == <<suspended, repoSuspended, created>>

treeVars == <<repositoryTree, repoPaths, disposed, handler, pathCalls, folderEvents, lastRemoval,
              focusVars>>

auxVars == <<served, overtaken, treeVars, results, util>>

vars == <<useCaching, fileTracked, docState, trackedCache, pc, req, cont, ret, out,
          core, ls, waitTrk, logs, spawned, outcome, liveAt, resetSeen, resets,
          navVars, repoVars, auxVars>>

NoState == [defined |-> FALSE, map |-> <<>>]
NoCont == [until |-> Undef, limit |-> 0, on |-> 0, of |-> 0, snap |-> UndefV]
NoRet == [k |-> "none"]
NoPromise == [st |-> "none", v |-> UndefV]
Pending == [st |-> "pending", v |-> UndefV]
Resolved(v) == [st |-> "resolved", v |-> v]

\* a cache entry of the document state: { item, errorMessage? }
Entry(p, msg) == [item |-> p, errorMessage |-> msg]

ErrorText(t) == "error" \o ToString(t)

NoNav == [fn |-> "none"]

NoEvent == [n |-> 0, repo |-> Undef, changes |-> {}]

Init ==
    /\ useCaching \in BOOLEAN
    /\ fileTracked \in BOOLEAN
    /\ docState = NoState
    /\ trackedCache = <<>>
    /\ pc = [t \in Tasks |-> "idle"]
    /\ req = [t \in Tasks |-> NoReq]
    /\ cont = [t \in Tasks |-> NoCont]
    /\ ret = [t \in Tasks |-> NoRet]
    /\ out = [t \in Tasks |-> UndefV]
    /\ core = [t \in Tasks |-> NoPromise]
    /\ ls = [t \in Tasks |-> NoPromise]
    /\ waitTrk = [t \in Tasks |-> NoRet]
    /\ logs = <<>>
    /\ spawned = [t \in Tasks |-> FALSE]
    /\ outcome = [t \in Tasks |-> "none"]
    /\ liveAt = [t \in Tasks |-> {}]
    /\ resetSeen = [t \in Tasks |-> FALSE]
    /\ resets = 0
    /\ nav = NoNav
    /\ branchesCache = <<>>
    /\ tagsCache = <<>>
    /\ userMapCache = <<>>
    /\ fetching = {}
    /\ pendingFire = 0
    /\ notified = 0
    /\ lastEvent = NoEvent
    /\ served = {}
    /\ overtaken = {}
    /\ repositoryTree = <<>>
    /\ repoPaths = <<>>
    /\ disposed = <<>>
    /\ handler = [st |-> "idle", added |-> <<>>, removed |-> <<>>]
    /\ pathCalls = [c \in 1..NumPathCalls |-> [st |-> "idle", path |-> <<>>, outcome |-> "none", res |-> <<>>]]
    /\ folderEvents = 0
    /\ lastRemoval = <<>>
    /\ suspended = FALSE
    /\ repoSuspended = <<>>
    /\ created = <<>>
    /\ results = 0
    /\ util = [fn |-> "none"]

\* ------------------------------------------------------------ promise views
PromiseSettled(p) == IF p = emptyPromise THEN TRUE ELSE core[p].st = "resolved"
PromiseValue(p) == IF p = emptyPromise THEN UndefV ELSE core[p].v

\* the retrieval a call made has returned and its promise is resolved
RetSettled(t) ==
    \/ ret[t].k = "value"
    \/ ret[t].k = "promise" /\ PromiseSettled(ret[t].p)
RetValue(t) == IF ret[t].k = "value" THEN ret[t].v ELSE PromiseValue(ret[t].p)

IsMore(t) == cont[t].on # 0
CallSettled(t) == IF IsMore(t) THEN pc[t] \in {"merged", "stored"} ELSE RetSettled(t)
CallValue(t) == IF IsMore(t) THEN out[t] ELSE RetValue(t)
InFlight == {t \in Tasks : pc[t] # "idle" /\ ~CallSettled(t)}


\* ----------------------------------------------------------------- parsers
\* A Log object. more is the identity of the Log its more continuation is
\* bound to (0: it has no continuation); opts are the options the
\* continuation and query closures captured.
Log(kind, commits, count, hasMore, limit, more, opts) ==
    [kind |-> kind, commits |-> commits, count |-> count, hasMore |-> hasMore,
     limit |-> limit, more |-> more, opts |-> opts]

LogV(id) == [kind |-> "log", id |-> id]

SeqSet(s) == {s[i] : i \in 1..Len(s)}

\* GitLogParser.parse: undefined for empty output, else one commit per record
ParseLog(data, kind, limit, opts, id) ==
    Log(kind, data.commits, Len(data.commits), data.truncated, limit,
        IF data.truncated THEN id ELSE 0, opts)

\* ------------------------------------------------------ the Core functions
\* the catch block of getBlameForFileCore / getDiffForFileCore /
\* getLogForFileCore: whether the failure replaces the cache entry
TrapsError(r, st) ==
    IF r.op = "logFile" THEN st.defined /\ ~r.range /\ ~r.reverse ELSE st.defined

\* (mutant) the catch block leaves the cache entry alone
CatchStateKeep(t, r, st) == st

CatchState(t, r, st) ==
    IF TrapsError(r, st)
    THEN [st EXCEPT !.map = (Key(r) :> Entry(emptyPromise, ErrorText(t))) @@ @]
    ELSE st

\* (mutant) the catch block rethrows: the promise is rejected
CatchSettleRethrow(t, r, st) == [st |-> "rejected", v |-> UndefV]

\* how the promise of a Core function settles when its subprocess fails
CatchSettle(t, r, st) == Resolved(UndefV)

\* (mutant) the Core function goes on whatever isTracked answered
AfterTrackedIgnored(t, tracked) ==
    /\ spawned' = [spawned EXCEPT ![t] = TRUE]
    /\ pc' = [pc EXCEPT ![t] = "proc"]
    /\ core' = core

\* the continuation of a Core function once isTracked has resolved
AfterTracked(t, tracked) ==
    IF tracked
    THEN /\ spawned' = [spawned EXCEPT ![t] = TRUE]
         /\ pc' = [pc EXCEPT ![t] = "proc"]
         /\ core' = core
    ELSE /\ core' = [core EXCEPT ![t] = Resolved(UndefV)]
         /\ pc' = [pc EXCEPT ![t] = "returned"]
         /\ spawned' = spawned

\* (mutant) isTrackedCore asks ls-files whatever the revision
isTrackedCoreAlways(ref) == Pending

\* isTrackedCore up to its first await: for the deleted-or-missing revision
\* it returns false at once, otherwise the ls-files subprocess is started
isTrackedCore(ref) == IF ref = deletedOrMissingSha THEN Resolved(FALSE) ELSE Pending

\* isTracked up to its first await, called from a Core function
IsTrackedStart(t, r) ==
    LET key == TrackedKey(r) IN
    IF r.op = "logFile" /\ r.ref = deletedOrMissingSha
    THEN /\ waitTrk' = [waitTrk EXCEPT ![t] = [k |-> "value", v |-> FALSE]]
         /\ UNCHANGED <<trackedCache, ls>>
    ELSE IF key \in DOMAIN trackedCache
    THEN /\ waitTrk' = [waitTrk EXCEPT ![t] = trackedCache[key]]
         /\ UNCHANGED <<trackedCache, ls>>
    ELSE /\ waitTrk' = [waitTrk EXCEPT ![t] = [k |-> "own"]]
         /\ ls' = [ls EXCEPT ![t] = isTrackedCore(TrackedRef(r))]
         /\ trackedCache' = (key :> [k |-> "promise", p |-> t]) @@ trackedCache

\* a Core function is called on a cache miss: its promise is created, it runs
\* to its first await, and the caller stores the promise under the key
StartCore(t, r, st) ==
    /\ core' = [core EXCEPT ![t] = Pending]
    /\ ret' = [ret EXCEPT ![t] = [k |-> "promise", p |-> t]]
    /\ docState' = IF st.defined /\ ~(r.op = "logFile" /\ r.range)
                   THEN [st EXCEPT !.map = (Key(r) :> Entry(t, Undef)) @@ @]
                   ELSE st
    /\ IF r.op = "diff"
       THEN /\ spawned' = [spawned EXCEPT ![t] = TRUE]
            /\ pc' = [pc EXCEPT ![t] = "proc"]
            /\ UNCHANGED <<trackedCache, ls, waitTrk>>
       ELSE /\ IsTrackedStart(t, r)
            /\ pc' = [pc EXCEPT ![t] = "isTracked"]
            /\ spawned' = spawned

\* if (doc.state === undefined) doc.state = new GitDocumentState(doc.key)
EnsureState(st) == IF st.defined THEN st ELSE [defined |-> TRUE, map |-> <<>>]

Issue(t, r) ==
    /\ pc[t] = "idle"
    /\ \A u \in Tasks : u < t => pc[u] # "idle"
    /\ req' = [req EXCEPT ![t] = r]
    /\ liveAt' = [liveAt EXCEPT ![t] = InFlight]

\* getBlameForFile, getBlameForFileContents and getDiffForFile
GetCached(t, r) ==
    LET key == Key(r)
        hit == useCaching /\ docState.defined /\ key \in DOMAIN docState.map
    IN IF hit
       THEN /\ ret' = [ret EXCEPT ![t] = [k |-> "promise", p |-> docState.map[key].item]]
            /\ pc' = [pc EXCEPT ![t] = "returned"]
            /\ UNCHANGED <<docState, core, trackedCache, ls, waitTrk, spawned>>
       ELSE StartCore(t, r, IF useCaching THEN EnsureState(docState) ELSE docState)

Call(t, r) ==
    /\ Issue(t, r)
    /\ GetCached(t, r)
    /\ UNCHANGED <<auxVars, navVars, repoVars, useCaching, fileTracked, cont, out, logs, outcome, resetSeen, resets>>

\* the log of the whole file, cut to start at ref and to hold at most limit
CopyFrom(log, ref, limit) ==
    LET idx  == CHOOSE i \in 1..Len(log.commits) : log.commits[i] = ref
        rest == SubSeq(log.commits, idx, Len(log.commits))
        kept == SubSeq(rest, 1, Min(limit, Len(rest)))
    IN [log EXCEPT !.limit = limit, !.count = Len(kept), !.commits = kept]

WholeUsable(v, ref) ==
    /\ v # UndefV
    /\ ~logs[v.id].hasMore
    /\ ref \in SeqSet(logs[v.id].commits)

\* getLogForFile up to the cache lookups
GetLogForFile(t, r) ==
    LET key   == LogKey(r)
        whole == WholeLogKey(r)
        look  == useCaching /\ ~r.range /\ docState.defined
    IN IF look /\ key \in DOMAIN docState.map
       THEN /\ ret' = [ret EXCEPT ![t] = [k |-> "promise", p |-> docState.map[key].item]]
            /\ pc' = [pc EXCEPT ![t] = "returned"]
            /\ UNCHANGED <<docState, core, trackedCache, ls, waitTrk, spawned>>
       ELSE IF look /\ whole \in DOMAIN docState.map /\ r.ref = Undef
       THEN /\ ret' = [ret EXCEPT ![t] = [k |-> "promise", p |-> docState.map[whole].item]]
            /\ pc' = [pc EXCEPT ![t] = "returned"]
            /\ UNCHANGED <<docState, core, trackedCache, ls, waitTrk, spawned>>
       ELSE IF look /\ whole \in DOMAIN docState.map
       THEN /\ ret' = [ret EXCEPT ![t] = [k |-> "whole", p |-> docState.map[whole].item]]
            /\ pc' = [pc EXCEPT ![t] = "awaitWhole"]
            /\ UNCHANGED <<docState, core, trackedCache, ls, waitTrk, spawned>>
       ELSE StartCore(t, r, IF useCaching /\ ~r.range THEN EnsureState(docState) ELSE docState)

CallLogForFile(t, r) ==
    /\ Issue(t, r)
    /\ GetLogForFile(t, r)
    /\ UNCHANGED <<auxVars, navVars, repoVars, useCaching, fileTracked, cont, out, logs, outcome, resetSeen, resets>>

\* getLogForFile after "await cachedLog.item"
ResumeWhole(t) ==
    /\ pc[t] = "awaitWhole"
    /\ PromiseSettled(ret[t].p)
    /\ LET v == PromiseValue(ret[t].p)
           r == req[t]
       IN IF WholeUsable(v, r.ref)
          THEN /\ logs' = Append(logs, CopyFrom(logs[v.id], r.ref, r.limit))
               /\ ret' = [ret EXCEPT ![t] = [k |-> "value", v |-> LogV(Len(logs) + 1)]]
               /\ pc' = [pc EXCEPT ![t] = "returned"]
               /\ UNCHANGED <<docState, core, trackedCache, ls, waitTrk, spawned>>
          ELSE /\ StartCore(t, r, EnsureState(docState))
               /\ logs' = logs
    /\ UNCHANGED <<auxVars, navVars, repoVars, useCaching, fileTracked, req, cont, out, outcome, liveAt, resetSeen, resets>>


\* getLog and getLogForSearch: no cache, the subprocess is invoked at once
CallLog(t, r) ==
    /\ Issue(t, r)
    /\ core' = [core EXCEPT ![t] = Pending]
    /\ ret' = [ret EXCEPT ![t] = [k |-> "promise", p |-> t]]
    /\ spawned' = [spawned EXCEPT ![t] = TRUE]
    /\ pc' = [pc EXCEPT ![t] = "proc"]
    /\ UNCHANGED <<auxVars, navVars, repoVars, useCaching, fileTracked, docState, trackedCache, cont, out, ls,
                   waitTrk, logs, outcome, resetSeen, resets>>

\* isTrackedCore: the ls-files subprocess ends; isTracked stores the value
\* and the Core function that awaited it goes on
LsDone(t, ok) ==
    /\ pc[t] = "isTracked"
    /\ waitTrk[t].k = "own"
    /\ ls[t].st = "pending"
    /\ LET tracked == ok /\ fileTracked
       IN /\ ls' = [ls EXCEPT ![t] = Resolved(tracked)]
          /\ trackedCache' = (TrackedKey(req[t]) :> [k |-> "value", v |-> tracked]) @@ trackedCache
          /\ waitTrk' = [waitTrk EXCEPT ![t] = [k |-> "value", v |-> tracked]]
          /\ AfterTracked(t, tracked)
    /\ UNCHANGED <<auxVars, navVars, repoVars, useCaching, fileTracked, docState, req, cont, ret, out, logs, outcome,
                   liveAt, resetSeen, resets>>

\* isTracked goes on without a subprocess having ended: it was answered from
\* the tracked-file cache (a value, or the promise of a lookup in flight), or
\* its own isTrackedCore had returned at once and the value is stored
TrackedResume(t) ==
    /\ pc[t] = "isTracked"
    /\ \/ waitTrk[t].k = "value"
       \/ waitTrk[t].k = "promise" /\ ls[waitTrk[t].p].st = "resolved"
       \/ waitTrk[t].k = "own" /\ ls[t].st = "resolved"
    /\ trackedCache' = IF waitTrk[t].k = "own"
                       THEN (TrackedKey(req[t]) :> [k |-> "value", v |-> ls[t].v]) @@ trackedCache
                       ELSE trackedCache
    /\ AfterTracked(t, CASE waitTrk[t].k = "value" -> waitTrk[t].v
                         [] waitTrk[t].k = "promise" -> ls[waitTrk[t].p].v
                         [] OTHER -> ls[t].v)
    /\ UNCHANGED <<auxVars, navVars, repoVars, useCaching, fileTracked, docState, req, cont, ret, out, ls,
                   waitTrk, logs, outcome, liveAt, resetSeen, resets>>

\* what the subprocess of a request can answer
Outcomes(r) ==
    IF r.op = "diff"
    THEN (IF fileTracked THEN {"data"} ELSE {}) \cup {"empty", "fail"}
    ELSE {"data", "fail"}

LogKind(r) == IF r.op = "logFile" THEN "file" ELSE r.op

\* the subprocess of a Core function (or of getLog / getLogForSearch) ends
ProcDone(t, o) ==
    /\ pc[t] = "proc"
    /\ o \in Outcomes(req[t])
    /\ outcome' = [outcome EXCEPT ![t] = o]
    /\ pc' = [pc EXCEPT ![t] = "returned"]
    /\ LET r == req[t]
           data == LogData(r.ref, r.limit, r.reverse, r.skip)
       IN IF o = "fail"
          THEN /\ docState' = IF r.op \in {"log", "search"} THEN docState
                              ELSE CatchState(t, r, docState)
               /\ core' = [core EXCEPT ![t] = IF r.op \in {"log", "search"}
                                              THEN Resolved(UndefV)
                                              ELSE CatchSettle(t, r, docState)]
               /\ logs' = logs
          ELSE IF r.op \in {"blame", "blameContents", "diff"}
          THEN /\ core' = [core EXCEPT ![t] =
                              Resolved(IF o = "empty" THEN UndefV ELSE [kind |-> r.op, by |-> t])]
               /\ UNCHANGED <<docState, logs>>
          ELSE IF data.commits = <<>>
          THEN /\ core' = [core EXCEPT ![t] = Resolved(UndefV)]
               /\ UNCHANGED <<docState, logs>>
          ELSE /\ logs' = Append(logs, ParseLog(data, LogKind(r), r.limit, r, Len(logs) + 1))
               /\ core' = [core EXCEPT ![t] = Resolved(LogV(Len(logs) + 1))]
               /\ docState' = docState
    /\ UNCHANGED <<auxVars, navVars, repoVars, useCaching, fileTracked, trackedCache, req, cont, ret, out, ls, waitTrk,
                   spawned, liveAt, resetSeen, resets>>

\* the tracked document's state is reset (the document changed or was saved)
Reset ==
    /\ docState.defined
    /\ resets < MaxResets
    /\ docState' = NoState
    /\ resets' = resets + 1
    /\ resetSeen' = [t \in Tasks |-> resetSeen[t] \/ pc[t] # "idle"]
    /\ UNCHANGED <<auxVars, navVars, repoVars, useCaching, fileTracked, trackedCache, pc, req, cont, ret, out, core, ls,
                   waitTrk, logs, spawned, outcome, liveAt>>


\* ------------------------------------------------- the more continuations
\* (mutant) the fetched page is put first
MergeCommitsPageFirst(a, b) == b \o SelectSeq(a, LAMBDA c : c \notin SeqSet(b))

\* new Map([...log.commits, ...moreLog.commits])
MergeCommits(a, b) == a \o SelectSeq(b, LAMBDA c : c \notin SeqSet(a))

\* the arguments of more: a page size, { until: sha }, or nothing
MoreArg(until, limit) == [until |-> until, limit |-> limit]

\* moreLimit ?? maxSearchItems ?? 0
MoreLimit(arg) == IF arg.limit = None THEN MaxSearchItems ELSE arg.limit[1]

Last(s) == s[Len(s)]

\* (mutant) the query restarts at the last known commit, not at its parent
MoreReqFromLast(b, arg) ==
    [b.opts EXCEPT !.limit = IF arg.until = Undef THEN MoreLimit(arg) ELSE 0,
                   !.ref = Last(b.commits)]

\* the query a more continuation bound to log b issues
MoreReq(b, arg) ==
    IF b.kind = "search"
    THEN [b.opts EXCEPT !.limit = MoreLimit(arg), !.skip = b.count]
    ELSE [b.opts EXCEPT
            !.limit = IF arg.until = Undef THEN MoreLimit(arg) ELSE 0,
            !.ref = IF arg.until = Undef THEN Parent(Last(b.commits))
                    ELSE UntilRange(arg.until, Last(b.commits))]

\* (mutant) only the oldest commit of the log is compared with until
UntilPresentLast(b, arg) ==
    b.kind # "search" /\ arg.until # Undef /\ arg.until = Last(b.commits)

\* if (moreUntil && some(log.commits, c => c.ref === moreUntil)) return log
UntilPresent(b, arg) ==
    b.kind # "search" /\ arg.until # Undef /\ arg.until \in SeqSet(b.commits)

\* the Log a more continuation bound to b builds from the fetched page m
MergedLog(b, m, until, moreLimit, id) ==
    Log(b.kind, MergeCommits(b.commits, m.commits), b.count + m.count,
        IF b.kind = "search" \/ until = Undef THEN m.hasMore ELSE TRUE,
        IF b.kind = "search" \/ until = Undef THEN b.limit + moreLimit ELSE 0,
        id, b.opts)

\* if (moreLog === undefined) return { ...log, hasMore: false }
ExhaustedLog(b) == [b EXCEPT !.hasMore = FALSE]

\* where the Log a continuation returns is put: a new object
StoreLog(heap, base, new) == Append(heap, new)

\* log.more(arg) is called on the held Log id
CallMore(t, id, arg) ==
    /\ id \in 1..Len(logs)
    /\ logs[id].more # 0
    /\ (arg.until # Undef \/ logs[id].kind = "search") => arg.limit = None
    /\ LET b == logs[logs[id].more]
           r == MoreReq(b, arg)
       IN /\ cont' = [cont EXCEPT ![t] = [on |-> logs[id].more, of |-> id, snap |-> logs[id],
                                          until |-> arg.until, limit |-> MoreLimit(arg)]]
          /\ IF UntilPresent(b, arg)
             THEN /\ Issue(t, NoReq)
                  /\ out' = [out EXCEPT ![t] = LogV(logs[id].more)]
                  /\ pc' = [pc EXCEPT ![t] = "merged"]
                  /\ UNCHANGED <<docState, core, trackedCache, ls, waitTrk, spawned, ret>>
             ELSE /\ Issue(t, r)
                  /\ out' = out
                  /\ IF b.kind = "file"
                     THEN GetLogForFile(t, r)
                     ELSE /\ core' = [core EXCEPT ![t] = Pending]
                          /\ ret' = [ret EXCEPT ![t] = [k |-> "promise", p |-> t]]
                          /\ spawned' = [spawned EXCEPT ![t] = TRUE]
                          /\ pc' = [pc EXCEPT ![t] = "proc"]
                          /\ UNCHANGED <<docState, trackedCache, ls, waitTrk>>
    /\ UNCHANGED <<auxVars, navVars, repoVars, useCaching, fileTracked, logs, outcome, resetSeen, resets>>

\* the query of a more continuation has resolved: the continuation merges
Merge(t) ==
    /\ pc[t] = "returned"
    /\ IsMore(t)
    /\ RetSettled(t)
    /\ LET b == logs[cont[t].on]
           v == RetValue(t)
           id == Len(logs) + 1
       IN /\ logs' = StoreLog(logs, cont[t].on,
                        IF v = UndefV THEN ExhaustedLog(b)
                        ELSE MergedLog(b, logs[v.id], cont[t].until, cont[t].limit, id))
          /\ out' = [out EXCEPT ![t] = LogV(id)]
    /\ pc' = [pc EXCEPT ![t] = "merged"]
    /\ UNCHANGED <<auxVars, navVars, repoVars, useCaching, fileTracked, docState, trackedCache, req, cont, ret, core, ls,
                   waitTrk, spawned, outcome, liveAt, resetSeen, resets>>

\* ------------------------------------------------------- the specifications
\* Spec: concurrent blame, diff and file-log requests on one document
CachedRequests ==
    {BlameReq(Undef), BlameContentsReq("h1"), DiffReq(Undef, Commit(2))}

LogFileRequests ==
    {LogFileReq(Undef, Some(0), FALSE, FALSE),
     LogFileReq(Parent(Commit(2)), Some(1), FALSE, FALSE),
     LogFileReq(Undef, None, TRUE, FALSE)}

Next ==
    \/ \E t \in Tasks, r \in CachedRequests : Call(t, r)
    \/ \E t \in Tasks, r \in LogFileRequests : CallLogForFile(t, r)
    \/ \E t \in Tasks : ResumeWhole(t)
    \/ \E t \in Tasks, ok \in BOOLEAN : LsDone(t, ok)
    \/ \E t \in Tasks : TrackedResume(t)
    \/ \E t \in Tasks, o \in {"data", "empty", "fail"} : ProcDone(t, o)
    \/ Reset

Spec == Init /\ [][Next]_vars

\* SpecLog: paginated logs and their more continuations
PagedLogRequests == {LogReq(Undef, None), SearchReq(None, 0)}

PagedFileRequests == {LogFileReq(Undef, Some(2), FALSE, FALSE)}

MoreArgs == {MoreArg(Undef, Some(1)), MoreArg(Undef, None)}

InitLog ==
    /\ Init
    /\ useCaching
    /\ fileTracked

NextLog ==
    \/ \E t \in Tasks, r \in PagedLogRequests : CallLog(t, r)
    \/ \E t \in Tasks, r \in PagedFileRequests : CallLogForFile(t, r)
    \/ \E t \in Tasks, id \in 1..Len(logs), arg \in MoreArgs : CallMore(t, id, arg)
    \/ \E t \in Tasks : Merge(t)
    \/ \E t \in Tasks, ok \in BOOLEAN : LsDone(t, ok)
    \/ \E t \in Tasks : TrackedResume(t)
    \/ \E t \in Tasks, o \in {"data", "fail"} : ProcDone(t, o)

SpecLog == InitLog /\ [][NextLog]_vars

\* SpecUntil: logs of one commit and more({ until: sha }) on them
UntilLogRequests == {LogReq(Undef, Some(1)), LogReq(Commit(2), Some(1))}

UntilFileRequests == {LogFileReq(Undef, Some(1), FALSE, FALSE)}

UntilArgs == {MoreArg(Commit(i), None) : i \in 1..HistLen}

NextUntil ==
    \/ \E t \in Tasks, r \in UntilLogRequests : CallLog(t, r)
    \/ \E t \in Tasks, r \in UntilFileRequests : CallLogForFile(t, r)
    \/ \E t \in Tasks, id \in 1..Len(logs), arg \in UntilArgs : CallMore(t, id, arg)
    \/ \E t \in Tasks : Merge(t)
    \/ \E t \in Tasks, ok \in BOOLEAN : LsDone(t, ok)
    \/ \E t \in Tasks, o \in {"data", "fail"} : ProcDone(t, o)

SpecUntil == InitLog /\ [][NextUntil]_vars


\* SpecQuery: the commits query of a compare node and its more continuation
QueryLimit == 1

\* getCommitsQuery up to "await Container.git.getLog(...)"
CallCommitsQuery(t) ==
    /\ results = 0
    /\ util = [fn |-> "none"]
    /\ \A u \in Tasks : pc[u] = "idle"
    /\ CallLog(t, LogReq(Undef, Some(QueryLimit)))

\* getCommitsQuery after the await: the Log is held in results.log, and
\* results.more is defined when the Log has more
CommitsQueryDone(t) ==
    /\ results = 0
    /\ util = [fn |-> "none"]
    /\ pc[t] = "returned"
    /\ ~IsMore(t)
    /\ RetSettled(t)
    /\ RetValue(t) # UndefV
    /\ logs[RetValue(t).id].hasMore
    /\ results' = RetValue(t).id
    /\ pc' = [pc EXCEPT ![t] = "stored"]
    /\ UNCHANGED <<served, overtaken, treeVars, util, navVars, repoVars, useCaching, fileTracked, docState,
                   trackedCache, req, cont, ret, out, core, ls, waitTrk, logs, spawned,
                   outcome, liveAt, resetSeen, resets>>

\* results.more(limit) up to its await: results.log?.more?.(limit) is called
\* on the Log held at this moment
CallResultsMore(t, arg) ==
    /\ results # 0
    /\ CallMore(t, results, arg)

\* results.more after the await: results.log = (the Log resolved) ?? results.log
ResultsMoreDone(t) ==
    /\ pc[t] = "merged"
    /\ results' = out[t].id
    /\ pc' = [pc EXCEPT ![t] = "stored"]
    /\ UNCHANGED <<served, overtaken, treeVars, util, navVars, repoVars, useCaching, fileTracked, docState,
                   trackedCache, req, cont, ret, out, core, ls, waitTrk, logs, spawned,
                   outcome, liveAt, resetSeen, resets>>

NextQuery ==
    \/ \E t \in Tasks : CallCommitsQuery(t)
    \/ \E t \in Tasks : CommitsQueryDone(t)
    \/ \E t \in Tasks : CallResultsMore(t, MoreArg(Undef, Some(QueryLimit)))
    \/ \E t \in Tasks : ResultsMoreDone(t)
    \/ \E t \in Tasks : Merge(t)
    \/ \E t \in Tasks, o \in {"data", "fail"} : ProcDone(t, o)

SpecQuery == InitLog /\ [][NextQuery]_vars


\* ------------------------------------------------------------- navigation
\* One navigation call is computed against the file's history; what the
\* subprocesses answer is an input e of the call.
MaxSkip == 1

File == "f"

RenamedFile == "g"

Rejected == [kind |-> "rejected"]

NavR(res, calls) == [res |-> res, calls |-> calls]

Pair(current, other) == [kind |-> "pair", current |-> current, other |-> other]

\* Git.isUncommittedStaged
isUncommittedStaged(ref) == ref = uncommittedStagedSha

\* Git.isUncommitted
isUncommitted(ref) == ref \in {uncommittedSha, uncommittedStagedSha}

\* GitUri.fromFile: the uri carries no sha for an empty or working-tree ref
fromFile(fileName, ref) ==
    [kind |-> "uri", file |-> fileName,
     sha |-> IF ref = Undef \/ ref = emptyStr THEN Undef
             ELSE IF isUncommittedStaged(ref) \/ ~isUncommitted(ref) THEN ref
             ELSE Undef]

\* the subprocess invocations a navigation call makes
LogFileCall(file, ref, limit, reverse, filters, firstParent, startLine, o) ==
    [cmd |-> "log__file", file |-> file, ref |-> ref, limit |-> limit, reverse |-> reverse,
     filters |-> filters, firstParent |-> firstParent, startLine |-> startLine, out |-> o]

StatusCall == [cmd |-> "status"]

RecentCall == [cmd |-> "log__file_recent"]

BlameLineCall(sha, contents) == [cmd |-> "blame", sha |-> sha, contents |-> contents]

DiffLineCall(ref) == [cmd |-> "diff", ref |-> ref]

\* git log of the file from ref towards older commits
PrevData(ref, limit) ==
    LET start == IF ref = Undef \/ isUncommittedStaged(ref) THEN 1 ELSE RefStart(ref)
    IN IF start = 0 THEN <<>>
       ELSE SubSeq(Hist, start, Min(start + limit - 1, HistLen))

\* git log --reverse of the file: the commits after ref, oldest first; with
\* the added-files filter and no ref, the commit that added the file
NextData(ref, filters, limit) ==
    LET start == RefStart(ref)
        newer == IF filters = <<"A">> THEN <<Hist[HistLen]>>
                 ELSE IF start = 0 THEN <<>>
                 ELSE Reverse(SubSeq(Hist, 1, start - 1))
    IN SubSeq(newer, 1, Min(limit, Len(newer)))

\* GitLogParser.parseSimple: the ref of the record after skip records, the
\* records of skipRef not counted
ParseSimple(data, skip, skipRef) ==
    LET d == SelectSeq(data, LAMBDA c : c # skipRef)
    IN IF Len(d) > skip THEN d[skip + 1] ELSE Undef

\* how a Git.log__file invocation ends: the first one of a call as e.log1
\* says, the later ones as e.log2 says; no output when git has nothing to list
LogOut(e, pre, data) ==
    LET o == IF \E i \in 1..Len(pre) : pre[i].cmd = "log__file" THEN e.log2 ELSE e.log1
    IN IF o = "data" /\ data = <<>> THEN "empty" ELSE o

StartLine(line) == IF line = None THEN None ELSE Some(line[1] + 1)

\* getPreviousUri past its first line
PreviousUriLookup(ref0, skip, line, firstParent, e, pre) ==
    LET ref   == IF ref0 = uncommittedSha THEN Undef ELSE ref0
        data  == PrevData(ref, skip + 2)
        o     == LogOut(e, pre, data)
        calls == Append(pre, LogFileCall(File, ref, skip + 2, FALSE, <<>>, firstParent,
                                         StartLine(line), o))
        previousRef == ParseSimple(data, skip, ref)
    IN IF o = "fail"
       THEN IF (ref = Undef \/ isUncommittedStaged(ref)) /\ e.invalidLineCount
            THEN IF ref = Undef /\ e.status.defined /\ e.status.index
                 THEN NavR(fromFile(File, uncommittedStagedSha), Append(calls, StatusCall))
                 ELSE NavR(fromFile(File, IF e.recent = Undef THEN deletedOrMissingSha
                                          ELSE e.recent),
                           Append(IF ref = Undef THEN Append(calls, StatusCall) ELSE calls,
                                  RecentCall))
            ELSE NavR(Rejected, calls)
       ELSE IF o = "empty" THEN NavR(UndefV, calls)
       ELSE IF ref # Undef /\ ref = previousRef THEN NavR(UndefV, calls)
       ELSE NavR(fromFile(File, IF previousRef = Undef THEN deletedOrMissingSha
                                ELSE previousRef), calls)

\* (mutant) getPreviousUri without its first line
getPreviousUriUnguarded(ref, skip, line, firstParent, e, pre) ==
    PreviousUriLookup(ref, skip, line, firstParent, e, pre)

getPreviousUri(ref, skip, line, firstParent, e, pre) ==
    IF ref = deletedOrMissingSha THEN NavR(UndefV, pre)
    ELSE PreviousUriLookup(ref, skip, line, firstParent, e, pre)

\* getNextUri from its first Git.log__file on
NextUriLookup(ref, filters, skip, e, pre) ==
    LET data    == NextData(ref, filters, skip + 1)
        o       == LogOut(e, pre, data)
        calls   == Append(pre, LogFileCall(File, ref, skip + 1, TRUE, filters, FALSE, None, o))
        nextRef == ParseSimple(data, skip, Undef)
        o2      == IF e.log2 = "data" /\ ~e.renamed THEN "empty" ELSE e.log2
        calls2  == Append(calls, LogFileCall(".", nextRef, 1, FALSE, <<"R">>, FALSE, None, o2))
    IN IF o = "fail" THEN NavR(Rejected, calls)
       ELSE IF o = "empty" THEN NavR(UndefV, calls)
       ELSE IF e.deletedNext
       THEN IF o2 = "fail" THEN NavR(Rejected, calls2)
            ELSE IF o2 = "empty" THEN NavR(fromFile(File, nextRef), calls2)
            ELSE NavR(fromFile(RenamedFile, IF nextRef = Undef THEN deletedOrMissingSha
                                            ELSE nextRef), calls2)
       ELSE NavR(fromFile(File, nextRef), calls)

\* (mutant) getNextUri answers undefined for the deleted-or-missing sha
getNextUriShortCircuit(ref, skip, e, pre) ==
    IF ref \in {Undef, emptyStr, deletedOrMissingSha} \/ isUncommittedStaged(ref)
    THEN NavR(UndefV, pre)
    ELSE NextUriLookup(ref, <<>>, skip, e, pre)

getNextUri(ref, skip, e, pre) ==
    IF ref = Undef \/ ref = emptyStr \/ isUncommittedStaged(ref) THEN NavR(UndefV, pre)
    ELSE IF ref = deletedOrMissingSha THEN NextUriLookup(Undef, <<"A">>, skip, e, pre)
    ELSE NextUriLookup(ref, <<>>, skip, e, pre)

getNextDiffUris(ref, skip, e) ==
    IF ref = Undef \/ ref = emptyStr THEN NavR(UndefV, <<>>)
    ELSE IF isUncommittedStaged(ref)
    THEN NavR(Pair(fromFile(File, ref), fromFile(File, Undef)), <<>>)
    ELSE LET next == getNextUri(ref, skip, e, <<>>)
             cur  == getNextUri(ref, skip - 1, e, next.calls)
         IN IF next.res = Rejected THEN next
            ELSE IF next.res = UndefV
            THEN NavR(Pair(fromFile(File, ref),
                           fromFile(File, IF e.status.defined /\ e.status.index
                                          THEN uncommittedStagedSha ELSE Undef)),
                      Append(next.calls, StatusCall))
            ELSE IF skip = 0 THEN NavR(Pair(fromFile(File, ref), next.res), next.calls)
            ELSE IF cur.res = Rejected THEN cur
            ELSE NavR(Pair(cur.res, next.res), cur.calls)

\* "diff commit with previous": the tail of getPreviousDiffUris
PreviousDiffTail(shown, ref, skip, firstParent, e, pre) ==
    LET cur == IF skip = 0 THEN NavR(fromFile(File, shown), pre)
               ELSE getPreviousUri(ref, skip - 1, None, firstParent, e, pre)
        prv == getPreviousUri(ref, skip, None, firstParent, e, cur.calls)
    IN IF cur.res = Rejected THEN cur
       ELSE IF cur.res = UndefV THEN NavR(UndefV, cur.calls)
       ELSE IF cur.res.sha = deletedOrMissingSha THEN NavR(UndefV, cur.calls)
       ELSE IF prv.res = Rejected THEN prv
       ELSE NavR(Pair(cur.res, prv.res), prv.calls)

\* a pair whose second uri is what getPreviousUri answers
PairWithPrevious(current, prv) ==
    IF prv.res = Rejected THEN prv ELSE NavR(Pair(current, prv.res), prv.calls)

\* getPreviousDiffUris past its first line
PreviousDiffUrisLookup(ref, skip, firstParent, e) ==
    LET st    == e.status
        skip1 == IF ~st.working THEN skip + 1 ELSE skip
    IN IF ref = Undef \/ ref = emptyStr
       THEN IF st.defined /\ st.index
            THEN IF skip1 = 0
                 THEN NavR(Pair(fromFile(File, Undef), fromFile(File, uncommittedStagedSha)),
                           <<StatusCall>>)
                 ELSE PairWithPrevious(fromFile(File, uncommittedStagedSha),
                          getPreviousUri(ref, skip1 - 1, None, firstParent, e, <<StatusCall>>))
            ELSE IF st.defined /\ st.working /\ skip = 0
            THEN PairWithPrevious(fromFile(File, Undef),
                     getPreviousUri(Undef, skip, None, firstParent, e, <<StatusCall>>))
            ELSE PreviousDiffTail(ref, ref, IF ~st.defined /\ skip = 0 THEN skip + 1 ELSE skip,
                                  firstParent, e, <<StatusCall>>)
       ELSE IF isUncommittedStaged(ref)
       THEN PreviousDiffTail(ref, Undef, skip, firstParent, e, <<>>)
       ELSE PreviousDiffTail(ref, ref, skip, firstParent, e, <<>>)

getPreviousDiffUris(ref, skip, firstParent, e) ==
    IF ref = deletedOrMissingSha THEN NavR(UndefV, <<>>)
    ELSE PreviousDiffUrisLookup(ref, skip, firstParent, e)

\* what getBlameForLine answers: the commit of the line and its previous sha
BlameSha(b) ==
    IF b = "committed" THEN Commit(2) ELSE IF b = "root" THEN Commit(1) ELSE uncommittedSha

BlamePrevious(b) == IF b = "committed" THEN Commit(1) ELSE Undef

\* the tail of getPreviousLineDiffUris: current is read without a check
PreviousLineDiffTail(ref, skip, line, previous, e, pre) ==
    LET cur == IF skip = 0 THEN NavR(fromFile(File, ref), pre)
               ELSE getPreviousUri(ref, skip - 1, Some(line), FALSE, e, pre)
    IN IF cur.res = Rejected THEN cur
       ELSE IF cur.res = UndefV THEN NavR(Rejected, cur.calls)
       ELSE IF cur.res.sha = deletedOrMissingSha THEN NavR(UndefV, cur.calls)
       ELSE IF previous # UndefV THEN NavR(Pair(cur.res, previous), cur.calls)
       ELSE PairWithPrevious(cur.res, getPreviousUri(ref, skip, Some(line), FALSE, e, cur.calls))

\* the previous uri known from the blame of the line
BlamedPrevious(b, skip) ==
    IF skip = 0 /\ BlamePrevious(b) # Undef THEN fromFile(File, BlamePrevious(b)) ELSE UndefV

\* getPreviousLineDiffUris past its first line
PreviousLineDiffUrisLookup(line, ref, skip, e) ==
    LET blamed  == <<BlameLineCall(Undef, e.dirty)>>
        status  == Append(blamed, StatusCall)
        working == Append(blamed, DiffLineCall(Undef))
        staged  == Append(working, DiffLineCall(uncommittedStagedSha))
        atRef   == <<BlameLineCall(ref, FALSE)>>
    IN IF ref = Undef \/ ref = emptyStr
       THEN IF e.blame = "none" THEN NavR(UndefV, blamed)
            ELSE IF e.blame = "uncommitted"
            THEN IF e.dirty
                 THEN IF e.status.defined /\ e.status.index
                      THEN NavR(Pair(fromFile(File, Undef),
                                     fromFile(File, uncommittedStagedSha)), status)
                      ELSE PairWithPrevious(fromFile(File, Undef),
                               getPreviousUri(Undef, skip, Some(line), FALSE, e, status))
                 ELSE IF e.hunkWorking
                 THEN PreviousLineDiffTail(ref, skip, line, UndefV, e, working)
                 ELSE IF e.hunkStaged
                 THEN PreviousLineDiffTail(uncommittedStagedSha, skip, line, UndefV, e, staged)
                 ELSE PreviousLineDiffTail(ref, skip + 1, line, UndefV, e, staged)
            ELSE PreviousLineDiffTail(BlameSha(e.blame), skip, line,
                                      BlamedPrevious(e.blame, skip), e, blamed)
       ELSE IF isUncommittedStaged(ref)
       THEN LET cur == IF skip = 0 THEN NavR(fromFile(File, ref), <<>>)
                       ELSE getPreviousUri(Undef, skip - 1, Some(line), FALSE, e, <<>>)
            IN IF cur.res = Rejected THEN cur
               ELSE IF cur.res = UndefV THEN NavR(Rejected, cur.calls)
               ELSE IF cur.res.sha = deletedOrMissingSha THEN NavR(UndefV, cur.calls)
               ELSE PairWithPrevious(cur.res,
                        getPreviousUri(Undef, skip, Some(line), FALSE, e, cur.calls))
       ELSE IF e.blame = "none" THEN NavR(UndefV, atRef)
       ELSE PreviousLineDiffTail(BlameSha(e.blame), skip, line,
                                 BlamedPrevious(e.blame, skip), e, atRef)

getPreviousLineDiffUris(line, ref, skip, e) ==
    IF ref = deletedOrMissingSha THEN NavR(UndefV, <<>>)
    ELSE PreviousLineDiffUrisLookup(line, ref, skip, e)

\* the inputs of a navigation call
NavRefs ==
    {Undef, emptyStr, Commit(1), Commit(2), Commit(HistLen), deletedOrMissingSha,
     uncommittedSha, uncommittedStagedSha}

Skips == 0..MaxSkip

Lines == {0, 1}

SubOuts == {"data", "empty", "fail"}

NoStatus == [defined |-> FALSE, index |-> FALSE, working |-> FALSE]

Statuses ==
    {NoStatus} \cup
    {[defined |-> TRUE, index |-> i, working |-> w] : i, w \in BOOLEAN}

Blames == {"none", "uncommitted", "committed", "root"}

Env(log1, log2, ilc, st, recent) ==
    [log1 |-> log1, log2 |-> log2, invalidLineCount |-> ilc, status |-> st, recent |-> recent,
     deletedNext |-> FALSE, renamed |-> FALSE, dirty |-> FALSE, blame |-> "none",
     hunkWorking |-> FALSE, hunkStaged |-> FALSE]

NavCall(fn, ref, skip, line, firstParent, r) ==
    [fn |-> fn, ref |-> ref, skip |-> skip, line |-> line, firstParent |-> firstParent,
     res |-> r.res, calls |-> r.calls]

\* everything a navigation call leaves alone
notNav ==
    <<auxVars, repoVars, useCaching, fileTracked, docState, trackedCache, pc, req, cont, ret, out,
      core, ls, waitTrk, logs, spawned, outcome, liveAt, resetSeen, resets>>

CallGetPreviousUri ==
    \E ref \in NavRefs, skip \in Skips, line \in {None, Some(0)}, firstParent \in BOOLEAN,
       log1 \in SubOuts, ilc \in BOOLEAN, st \in Statuses, recent \in {Undef, Commit(HistLen)} :
        /\ nav = NoNav
        /\ nav' = NavCall("getPreviousUri", ref, skip, line, firstParent,
                      getPreviousUri(ref, skip, line, firstParent,
                                     Env(log1, "data", ilc, st, recent), <<>>))
        /\ UNCHANGED notNav

CallGetPreviousDiffUris ==
    \E ref \in NavRefs, skip \in Skips, firstParent \in BOOLEAN,
       log1, log2 \in SubOuts, st \in Statuses :
        /\ nav = NoNav
        /\ nav' = NavCall("getPreviousDiffUris", ref, skip, None, firstParent,
                      getPreviousDiffUris(ref, skip, firstParent,
                                          Env(log1, log2, FALSE, st, Undef)))
        /\ UNCHANGED notNav

CallGetPreviousLineDiffUris ==
    \E ref \in NavRefs, skip \in Skips, line \in Lines, log1, log2 \in SubOuts,
       st \in {NoStatus, [defined |-> TRUE, index |-> TRUE, working |-> TRUE]},
       dirty, hunkWorking, hunkStaged \in BOOLEAN, blame \in Blames :
        /\ nav = NoNav
        /\ nav' = NavCall("getPreviousLineDiffUris", ref, skip, Some(line), FALSE,
                      getPreviousLineDiffUris(line, ref, skip,
                          [Env(log1, log2, FALSE, st, Undef) EXCEPT
                               !.dirty = dirty, !.blame = blame,
                               !.hunkWorking = hunkWorking, !.hunkStaged = hunkStaged]))
        /\ UNCHANGED notNav

CallGetNextUri ==
    \E ref \in NavRefs, skip \in Skips, log1, log2 \in SubOuts,
       deletedNext, renamed \in BOOLEAN :
        /\ nav = NoNav
        /\ nav' = NavCall("getNextUri", ref, skip, None, FALSE,
                      getNextUri(ref, skip,
                          [Env(log1, log2, FALSE, NoStatus, Undef) EXCEPT
                               !.deletedNext = deletedNext, !.renamed = renamed], <<>>))
        /\ UNCHANGED notNav

CallGetNextDiffUris ==
    \E ref \in NavRefs, skip \in Skips, log1, log2 \in SubOuts, st \in Statuses :
        /\ nav = NoNav
        /\ nav' = NavCall("getNextDiffUris", ref, skip, None, FALSE,
                      getNextDiffUris(ref, skip, Env(log1, log2, FALSE, st, Undef)))
        /\ UNCHANGED notNav

InitNav ==
    /\ Init
    /\ useCaching
    /\ fileTracked

NextNav ==
    \/ CallGetPreviousUri
    \/ CallGetPreviousDiffUris
    \/ CallGetPreviousLineDiffUris
    \/ CallGetNextUri
    \/ CallGetNextDiffUris

SpecNav == InitNav /\ [][NextNav]_vars

\* ------------------------------------------------ repository change events
MaxEvents == 1

MaxFetching == 1

RepoCalls == 2

Repos == {"r1", "r2"}

RepositoryChanges == {"config", "closed", "stashes"}

Null == [kind |-> "null"]

Remove(map, k) == [x \in DOMAIN map \ {k} |-> map[x]]

Fetch(kind, repo) == [kind |-> kind, repo |-> repo]

\* RepositoryChangeEvent.changed(change, solely)
Changed(e, change, solely) ==
    IF solely THEN e.changes = {change} ELSE change \in e.changes

\* (mutant) no event counts as a change of the stashes only
NeverStashesOnly(e) == FALSE

\* e.changed(RepositoryChange.Stashes, true)
StashesOnly(e) == Changed(e, "stashes", TRUE)

CanFetch(kind, repo) ==
    /\ Fetch(kind, repo) \notin fetching
    /\ Cardinality(fetching) < MaxFetching

\* getBranches up to Git.for_each_ref__branch: the cache is read when caching is on
StartGetBranches(repo) ==
    /\ CanFetch("branches", repo)
    /\ ~(useCaching /\ repo \in DOMAIN branchesCache)
    /\ fetching' = fetching \cup {Fetch("branches", repo)}
    /\ UNCHANGED <<auxVars, navVars, branchesCache, tagsCache, userMapCache, pendingFire, notified,
                   lastEvent, useCaching, fileTracked, docState, trackedCache, pc, req, cont,
                   ret, out, core, ls, waitTrk, logs, spawned, outcome, liveAt, resetSeen,
                   resets>>

\* getBranches once the branches are parsed
EndGetBranches(repo, supportsChangeEvents) ==
    /\ Fetch("branches", repo) \in fetching
    /\ fetching' = fetching \ {Fetch("branches", repo)}
    /\ branchesCache' = IF useCaching /\ supportsChangeEvents
                        THEN (repo :> "branches") @@ branchesCache
                        ELSE branchesCache
    /\ overtaken' = IF useCaching /\ supportsChangeEvents THEN overtaken
                    ELSE overtaken \ {Fetch("branches", repo)}
    /\ UNCHANGED <<served, treeVars, results, util, navVars, tagsCache, userMapCache, pendingFire, notified,
                   lastEvent, useCaching, fileTracked, docState, trackedCache, pc, req, cont,
                   ret, out, core, ls, waitTrk, logs, spawned, outcome, liveAt, resetSeen,
                   resets>>

\* getTags up to Git.tag: the cache is read whatever the caching setting
StartGetTags(repo) ==
    /\ CanFetch("tags", repo)
    /\ repo \notin DOMAIN tagsCache
    /\ fetching' = fetching \cup {Fetch("tags", repo)}
    /\ UNCHANGED <<auxVars, navVars, branchesCache, tagsCache, userMapCache, pendingFire, notified,
                   lastEvent, useCaching, fileTracked, docState, trackedCache, pc, req, cont,
                   ret, out, core, ls, waitTrk, logs, spawned, outcome, liveAt, resetSeen,
                   resets>>

\* getTags once the tags are parsed
EndGetTags(repo, supportsChangeEvents) ==
    /\ Fetch("tags", repo) \in fetching
    /\ fetching' = fetching \ {Fetch("tags", repo)}
    /\ tagsCache' = IF supportsChangeEvents THEN (repo :> "tags") @@ tagsCache ELSE tagsCache
    /\ overtaken' = IF supportsChangeEvents THEN overtaken ELSE overtaken \ {Fetch("tags", repo)}
    /\ UNCHANGED <<served, treeVars, results, util, navVars, branchesCache, userMapCache, pendingFire, notified,
                   lastEvent, useCaching, fileTracked, docState, trackedCache, pc, req, cont,
                   ret, out, core, ls, waitTrk, logs, spawned, outcome, liveAt, resetSeen,
                   resets>>

\* getBranches answered from _branchesCache: only when caching is on
GetBranchesCached(repo) ==
    /\ useCaching
    /\ repo \in DOMAIN branchesCache
    /\ served' = served \cup {"branches"}
    /\ UNCHANGED <<overtaken, treeVars, results, util, navVars, repoVars, useCaching, fileTracked, docState, trackedCache, pc, req,
                   cont, ret, out, core, ls, waitTrk, logs, spawned, outcome, liveAt,
                   resetSeen, resets>>

\* getTags answered from _tagsCache: the caching setting is not consulted
GetTagsCached(repo) ==
    /\ repo \in DOMAIN tagsCache
    /\ served' = served \cup {"tags"}
    /\ UNCHANGED <<overtaken, treeVars, results, util, navVars, repoVars, useCaching, fileTracked, docState, trackedCache, pc, req,
                   cont, ret, out, core, ls, waitTrk, logs, spawned, outcome, liveAt,
                   resetSeen, resets>>

\* getCurrentUser up to Git.config__get_regex: a cached user or null ends it
StartGetCurrentUser(repo) ==
    /\ CanFetch("user", repo)
    /\ repo \notin DOMAIN userMapCache
    /\ fetching' = fetching \cup {Fetch("user", repo)}
    /\ UNCHANGED <<auxVars, navVars, branchesCache, tagsCache, userMapCache, pendingFire, notified,
                   lastEvent, useCaching, fileTracked, docState, trackedCache, pc, req, cont,
                   ret, out, core, ls, waitTrk, logs, spawned, outcome, liveAt, resetSeen,
                   resets>>

\* getCurrentUser once the configuration is read: null when it names no user
EndGetCurrentUser(repo, found) ==
    /\ Fetch("user", repo) \in fetching
    /\ fetching' = fetching \ {Fetch("user", repo)}
    /\ userMapCache' = (repo :> IF found THEN [kind |-> "user"] ELSE Null) @@ userMapCache
    /\ UNCHANGED <<auxVars, navVars, branchesCache, tagsCache, pendingFire, notified,
                   lastEvent, useCaching, fileTracked, docState, trackedCache, pc, req, cont,
                   ret, out, core, ls, waitTrk, logs, spawned, outcome, liveAt, resetSeen,
                   resets>>

onAnyRepositoryChanged(repo, changes) ==
    LET e == [n |-> lastEvent.n + 1, repo |-> repo, changes |-> changes]
    IN /\ lastEvent.n < MaxEvents
       /\ lastEvent' = e
       /\ IF StashesOnly(e)
          THEN UNCHANGED <<branchesCache, tagsCache, trackedCache, userMapCache, pendingFire,
                           overtaken>>
          ELSE /\ branchesCache' = Remove(branchesCache, repo)
               /\ overtaken' = {f \in overtaken : f.repo # repo}
                                \cup {f \in fetching : f.repo = repo /\ f.kind \in {"branches", "tags"}}
               /\ tagsCache' = Remove(tagsCache, repo)
               /\ trackedCache' = <<>>
               /\ userMapCache' = IF Changed(e, "config", FALSE)
                                  THEN Remove(userMapCache, repo)
                                  ELSE userMapCache
               /\ pendingFire' = IF Changed(e, "closed", FALSE)
                                 THEN pendingFire + 1
                                 ELSE pendingFire
       /\ UNCHANGED <<served, treeVars, results, util, navVars, fetching, notified, useCaching, fileTracked, docState, pc, req,
                      cont, ret, out, core, ls, waitTrk, logs, spawned, outcome, liveAt,
                      resetSeen, resets>>

\* the setImmediate callback of onAnyRepositoryChanged
fireRepositoriesChanged ==
    /\ pendingFire > 0
    /\ pendingFire' = pendingFire - 1
    /\ notified' = notified + 1
    /\ UNCHANGED <<auxVars, navVars, branchesCache, tagsCache, userMapCache, fetching, lastEvent,
                   useCaching, fileTracked, docState, trackedCache, pc, req, cont, ret, out,
                   core, ls, waitTrk, logs, spawned, outcome, liveAt, resetSeen, resets>>

InitRepo ==
    /\ Init
    /\ fileTracked

NextRepo ==
    \/ \E repo \in Repos : StartGetBranches(repo)
    \/ \E repo \in Repos, supports \in BOOLEAN : EndGetBranches(repo, supports)
    \/ \E repo \in Repos : StartGetTags(repo)
    \/ \E repo \in Repos, supports \in BOOLEAN : EndGetTags(repo, supports)
    \/ \E repo \in Repos : GetBranchesCached(repo)
    \/ \E repo \in Repos : GetTagsCached(repo)
    \/ \E repo \in Repos : StartGetCurrentUser(repo)
    \/ \E repo \in Repos, found \in BOOLEAN : EndGetCurrentUser(repo, found)
    \/ \E repo \in Repos, changes \in (SUBSET RepositoryChanges) \ {{}} :
          onAnyRepositoryChanged(repo, changes)
    \/ fireRepositoriesChanged
    \/ \E t \in 1..RepoCalls : Call(t, BlameReq(Undef))
    \/ \E t \in 1..RepoCalls, ok \in BOOLEAN : LsDone(t, ok)
    \/ \E t \in 1..RepoCalls : TrackedResume(t)

SpecRepo == InitRepo /\ [][NextRepo]_vars

\* ------------------------------------------------- the repository registry
MaxRepos == 3

MaxFolderEvents == 2

\* paths are sequences of segments; the registry is indexed by path
IsPrefix(a, b) == Len(a) <= Len(b) /\ SubSeq(b, 1, Len(a)) = a

\* the directories that can hold a repository, the workspace folders and the
\* files getRepoPath is asked about (x lies outside every repository)
RepoDirs == {<<"w">>, <<"w", "a">>, <<"w", "a", "b">>, <<"v">>}

Folders == {<<"w">>, <<"w", "a">>, <<"v">>}

FilePaths == {<<"w", "f">>, <<"w", "a", "f">>, <<"x", "f">>}

PathCallIds == 1..NumPathCalls

\* an undefined path, and an undefined repository
NoPath == <<>>

NoRepo == 0

NoHandler == [st |-> "idle", added |-> <<>>, removed |-> <<>>]

\* TernarySearchTree.findSuperstr: the keys strictly below a path
findSuperstr(tree, fsPath) == {k \in DOMAIN tree : IsPrefix(fsPath, k) /\ k # fsPath}

\* TernarySearchTree.findSubstr: the entry of the longest key that is a prefix
findSubstr(tree, path) ==
    LET up == {k \in DOMAIN tree : IsPrefix(k, path)}
    IN IF up = {} THEN NoRepo
       ELSE tree[CHOOSE k \in up : \A j \in up : Len(j) <= Len(k)]

\* TernarySearchTree.highlander: the only entry, if there is exactly one
highlander(tree) ==
    IF Cardinality(DOMAIN tree) = 1
    THEN LET k == CHOOSE k \in DOMAIN tree : TRUE IN <<tree[k], k>>
    ELSE <<>>

\* (mutant) the first entry of the registry, however many there are
getHighlanderRepoPathAny(tree, repos) ==
    IF DOMAIN tree = {} THEN NoPath ELSE repos[tree[CHOOSE k \in DOMAIN tree : TRUE]]

getHighlanderRepoPath(tree, repos) ==
    LET entry == highlander(tree)
    IN IF entry = <<>> THEN NoPath ELSE repos[entry[1]]

\* (mutant) only the repositories nested under the folder are deleted
ReposToDeleteNestedOnly(tree, repos, fsPath) ==
    [i \in 1..Len(repos) |-> Cardinality({k \in findSuperstr(tree, fsPath) : tree[k] = i})]

\* reposToDelete of one removed folder: how many times each repository is in
\* it (the repositories found below the folder, then the one at the folder)
ReposToDelete(tree, repos, fsPath) ==
    [i \in 1..Len(repos) |->
        Cardinality({k \in findSuperstr(tree, fsPath) : tree[k] = i})
        + (IF fsPath \in DOMAIN tree /\ tree[fsPath] = i THEN 1 ELSE 0)]

\* the loop over e.removed: each listed repository is deleted under its path
\* (under the folder's path for the one at the folder) and disposed
RECURSIVE RemoveFolders(_, _, _, _)
RemoveFolders(tree, gone, repos, removed) ==
    IF removed = <<>> THEN [tree |-> tree, disposed |-> gone]
    ELSE LET f     == Head(removed)
             times == ReposToDelete(tree, repos, f)
             keys  == {repos[tree[k]] : k \in findSuperstr(tree, f)}
                      \cup (IF f \in DOMAIN tree THEN {f} ELSE {})
         IN RemoveFolders([k \in DOMAIN tree \ keys |-> tree[k]],
                          [i \in 1..Len(repos) |-> gone[i] + times[i]],
                          repos, Tail(removed))

\* for (const r of repositories) this._repositoryTree.set(r.path, r): the
\* Repository objects created for the paths, and the registry with them set
RECURSIVE SetRepositories(_, _, _)
SetRepositories(tree, repos, found) ==
    IF found = {} THEN [tree |-> tree, repos |-> repos]
    ELSE LET p == CHOOSE p \in found : TRUE
         IN SetRepositories((p :> Len(repos) + 1) @@ [k \in DOMAIN tree \ {p} |-> tree[k]],
                            Append(repos, p), found \ {p})

\* what repositorySearch can answer for a folder: the repository the folder
\* lies in and repositories below the folder
SearchResults(f) ==
    {s \in SUBSET {p \in RepoDirs : IsPrefix(f, p) \/ IsPrefix(p, f)} :
        /\ Cardinality(s) <= 2
        /\ Cardinality({p \in s : IsPrefix(p, f)}) <= 1}

\* e.added and e.removed of the events delivered
AddedLists == {<<>>} \cup {<<f>> : f \in Folders}

RemovedLists == AddedLists \cup {l \in {<<f, g>> : f \in Folders, g \in Folders} : l[1] # l[2]}

notTree ==
    <<served, overtaken, results, util, navVars, branchesCache, tagsCache, userMapCache, fetching, notified, lastEvent,
      useCaching, fileTracked, docState, trackedCache, pc, req, cont, ret, out, core, ls,
      waitTrk, logs, spawned, outcome, liveAt, resetSeen, resets>>

\* onWorkspaceFoldersChanged from the end of the loop over e.added: the loop
\* over e.removed, updateContext and the deferred notification
FoldersRemoved(tree, repos, removed) ==
    LET after == RemoveFolders(tree, disposed \o [i \in 1..(Len(repos) - Len(disposed)) |-> 0],
                               repos, removed)
    IN /\ repositoryTree' = after.tree
       /\ disposed' = after.disposed
       /\ repoPaths' = repos
       /\ pendingFire' = pendingFire + 1
       /\ folderEvents' = folderEvents + 1
       /\ lastRemoval' = removed

\* onWorkspaceFoldersChanged up to its first await (a repositorySearch), or to
\* its end when no folder was added
onWorkspaceFoldersChanged(added, removed) ==
    /\ handler.st = "idle"
    /\ folderEvents < MaxFolderEvents
    /\ added # <<>> \/ removed # <<>>
    /\ IF added = <<>>
       THEN /\ FoldersRemoved(repositoryTree, repoPaths, removed)
            /\ handler' = handler
       ELSE /\ handler' = [st |-> "search", added |-> added, removed |-> removed]
            /\ UNCHANGED <<repositoryTree, disposed, repoPaths, pendingFire, folderEvents,
                           lastRemoval>>
    /\ UNCHANGED <<pathCalls, focusVars, notTree>>

\* repositorySearch after one of its awaits of getRepoPathCore: the root
\* repository first, then those below the folder, each created with the
\* value _suspended has at that moment
RepositoryCreated(p) ==
    /\ handler.st = "search"
    /\ p \notin DOMAIN created
    /\ \E found \in SearchResults(Head(handler.added)) : DOMAIN created \cup {p} \subseteq found
    /\ IsPrefix(p, Head(handler.added)) => created = <<>>
    /\ created' = (p :> suspended) @@ created
    /\ UNCHANGED <<repositoryTree, repoPaths, disposed, handler, pathCalls, folderEvents,
                   lastRemoval, suspended, repoSuspended, pendingFire, notTree>>

\* Repository.suspend and Repository.resume of every entry of the registry
onWindowStateChanged(focused) ==
    /\ repoSuspended' = [i \in 1..Len(repoSuspended) |->
                            IF \E k \in DOMAIN repositoryTree : repositoryTree[k] = i
                            THEN ~focused
                            ELSE repoSuspended[i]]
    /\ suspended' = ~focused
    /\ UNCHANGED <<repositoryTree, repoPaths, disposed, handler, pathCalls, folderEvents,
                   lastRemoval, created, pendingFire, notTree>>

\* onWorkspaceFoldersChanged after "await this.repositorySearch(f)": the
\* repositories the search has not created yet are created, all of them are
\* set, then the next folder is searched or the handler runs to its end
RepositorySearchDone(found) ==
    /\ handler.st = "search"
    /\ found \in SearchResults(Head(handler.added))
    /\ DOMAIN created \subseteq found
    /\ Len(repoPaths) + Cardinality(found) <= MaxRepos
    /\ LET set == SetRepositories(repositoryTree, repoPaths, found)
       IN /\ repoSuspended' =
                [i \in 1..Len(set.repos) |->
                    IF i <= Len(repoPaths) THEN repoSuspended[i]
                    ELSE IF set.repos[i] \in DOMAIN created THEN created[set.repos[i]]
                    ELSE suspended]
          /\ created' = <<>>
          /\ suspended' = suspended
          /\ IF Tail(handler.added) # <<>>
             THEN /\ repositoryTree' = set.tree
                  /\ repoPaths' = set.repos
                  /\ disposed' = disposed \o [i \in 1..Cardinality(found) |-> 0]
                  /\ handler' = [handler EXCEPT !.added = Tail(@)]
                  /\ UNCHANGED <<pendingFire, folderEvents, lastRemoval>>
             ELSE /\ FoldersRemoved(set.tree, set.repos, handler.removed)
                  /\ handler' = NoHandler
    /\ UNCHANGED <<pathCalls, notTree>>

\* getRepository(path, { skipCacheUpdate: true }): the repository registered
\* at the path, or the nearest one above it if the file is tracked in it
getRepository(tree, path, tracked) ==
    IF path \in DOMAIN tree THEN tree[path]
    ELSE IF tracked THEN findSubstr(tree, path)
    ELSE NoRepo

\* getRepoPath up to "await this.getRepoPathCore(...)"
StartGetRepoPath(c, path, tracked) ==
    /\ pathCalls[c].st = "idle"
    /\ LET repo == getRepository(repositoryTree, path, tracked)
       IN pathCalls' = [pathCalls EXCEPT ![c] =
            IF path = NoPath
            THEN [st |-> "done", path |-> path, outcome |-> "none",
                  res |-> getHighlanderRepoPath(repositoryTree, repoPaths)]
            ELSE IF repo # NoRepo
            THEN [st |-> "done", path |-> path, outcome |-> "none", res |-> repoPaths[repo]]
            ELSE [st |-> "revParse", path |-> path, outcome |-> "none", res |-> NoPath]]
    /\ UNCHANGED <<repositoryTree, repoPaths, disposed, handler, folderEvents, lastRemoval,
                   focusVars, pendingFire, notTree>>

\* what Git.rev_parse__show_toplevel can answer for the directory of a file
RevParseOutcomes ==
    {[k |-> "none", root |-> NoPath], [k |-> "error", root |-> NoPath]}
    \cup {[k |-> "root", root |-> p] : p \in RepoDirs}

\* (mutant) getRepoPathCore lets the failure of the subprocess through
getRepoPathCoreRethrow(o) == [threw |-> o.k = "error", path |-> o.root]

\* getRepoPathCore: the root the subprocess named; undefined when it named
\* none or failed (the failure is logged, not thrown)
getRepoPathCore(o) == [threw |-> FALSE, path |-> o.root]

\* getRepoPath after "await this.getRepoPathCore(...)"
EndGetRepoPath(c, o) ==
    /\ pathCalls[c].st = "revParse"
    /\ o.k = "root" => IsPrefix(o.root, pathCalls[c].path)
    /\ LET got == getRepoPathCore(o)
           rp  == got.path
       IN IF got.threw
          THEN /\ pathCalls' = [pathCalls EXCEPT ![c].st = "rejected", ![c].outcome = o.k]
               /\ UNCHANGED <<repositoryTree, repoPaths, disposed, repoSuspended, pendingFire>>
          ELSE IF rp = NoPath \/ rp \in DOMAIN repositoryTree
          THEN /\ pathCalls' = [pathCalls EXCEPT ![c].st = "done", ![c].outcome = o.k,
                                                 ![c].res = rp]
               /\ UNCHANGED <<repositoryTree, repoPaths, disposed, repoSuspended, pendingFire>>
          ELSE /\ Len(repoPaths) < MaxRepos
               /\ pathCalls' = [pathCalls EXCEPT ![c].st = "done", ![c].outcome = o.k,
                                                 ![c].res = rp]
               /\ repositoryTree' = (rp :> Len(repoPaths) + 1) @@ repositoryTree
               /\ repoPaths' = Append(repoPaths, rp)
               /\ disposed' = Append(disposed, 0)
               /\ repoSuspended' = Append(repoSuspended, suspended)
               /\ pendingFire' = pendingFire + 1
    /\ UNCHANGED <<handler, folderEvents, lastRemoval, suspended, created, notTree>>

InitTree ==
    /\ Init
    /\ useCaching
    /\ fileTracked

NextTree ==
    \/ \E added \in AddedLists, removed \in RemovedLists :
          onWorkspaceFoldersChanged(added, removed)
    \/ \E found \in SUBSET RepoDirs : RepositorySearchDone(found)
    \/ \E c \in PathCallIds, path \in FilePaths \cup {NoPath}, tracked \in BOOLEAN :
          StartGetRepoPath(c, path, tracked)
    \/ \E c \in PathCallIds, o \in RevParseOutcomes : EndGetRepoPath(c, o)

SpecTree == InitTree /\ [][NextTree]_vars

\* SpecFocus: the registry under window focus changes
NextFocus ==
    \/ \E added \in AddedLists : onWorkspaceFoldersChanged(added, <<>>)
    \/ \E p \in RepoDirs : RepositoryCreated(p)
    \/ \E found \in SUBSET RepoDirs : RepositorySearchDone(found)
    \/ \E c \in PathCallIds, path \in FilePaths \cup {NoPath}, tracked \in BOOLEAN :
          StartGetRepoPath(c, path, tracked)
    \/ \E c \in PathCallIds, o \in RevParseOutcomes : EndGetRepoPath(c, o)
    \/ \E focused \in BOOLEAN : onWindowStateChanged(focused)

SpecFocus == InitTree /\ [][NextFocus]_vars

\* ------------------------------------------------------- blame of a range
MaxLines == 3

NoCall == [fn |-> "none"]

\* everything but the call record
notUtil ==
    <<served, overtaken, treeVars, results, navVars, repoVars, useCaching, fileTracked, docState,
      trackedCache, pc, req, cont, ret, out, core, ls, waitTrk, logs, spawned, outcome,
      liveAt, resetSeen, resets>>

BlameShas == {"s1", "s2", "s3"}

BlameAuthors == {"ann", "bob"}

\* how many of the lines belong to the commits shas
LinesOf(lines, shas) == Cardinality({i \in 1..Len(lines) : lines[i].sha \in shas})

\* the blame of a whole file as GitBlameParser.parse builds it from the sha
\* of each line: lines numbered from 1, a commit per sha with its lines, an
\* author per name with the number of lines of its commits
ParseBlame(shas, authorOf) ==
    LET lines == [i \in 1..Len(shas) |-> [sha |-> shas[i], line |-> i]]
    IN [lines |-> lines,
        commits |-> [s \in SeqSet(shas) |->
                        [sha |-> s, author |-> authorOf[s],
                         lines |-> SelectSeq(lines, LAMBDA l : l.sha = s)]],
        authors |-> [a \in {authorOf[s] : s \in SeqSet(shas)} |->
                        LinesOf(lines, {s \in SeqSet(shas) : authorOf[s] = a})]]

\* the sum of the values of a function with a finite domain
RECURSIVE SumOf(_)
SumOf(f) ==
    IF DOMAIN f = {} THEN 0
    ELSE LET k == CHOOSE k \in DOMAIN f : TRUE
         IN f[k] + SumOf([j \in DOMAIN f \ {k} |-> f[j]])

\* (mutant) the authors of the whole file are returned for the range
RangeAuthorsCopied(blame, commits) == blame.authors

\* the authors map of getBlameForRangeSync: an author per commit kept,
\* lineCount summed over the lines its commits keep
RangeAuthors(blame, commits) ==
    [a \in {commits[s].author : s \in DOMAIN commits} |->
        SumOf([s \in {c \in DOMAIN commits : commits[c].author = a} |->
                  Len(commits[s].lines)])]

\* getBlameForRangeSync; the range is given by its 0-based first and last line
getBlameForRangeSync(blame, start, end) ==
    IF Len(blame.lines) = 0 THEN blame
    ELSE IF start = 0 /\ end = Len(blame.lines) - 1 THEN blame
    ELSE LET lines   == SubSeq(blame.lines, start + 1, Min(end + 1, Len(blame.lines)))
             shas    == {lines[i].sha : i \in 1..Len(lines)}
             commits == [s \in {c \in DOMAIN blame.commits : c \in shas} |->
                            [blame.commits[s] EXCEPT !.lines =
                                SelectSeq(@, LAMBDA l : l.line >= start + 1 /\ l.line <= end + 1)]]
         IN [lines |-> lines, commits |-> commits, authors |-> RangeAuthors(blame, commits)]

BlameLines == UNION {[1..n -> BlameShas] : n \in 0..MaxLines}

CallGetBlameForRangeSync ==
    /\ util = NoCall
    /\ \E shas \in BlameLines, authorOf \in [BlameShas -> BlameAuthors],
          start \in 0..(MaxLines - 1), end \in 0..MaxLines :
        /\ start <= end
        /\ util' = [fn |-> "getBlameForRangeSync", shas |-> shas, start |-> start, end |-> end,
                    whole |-> ParseBlame(shas, authorOf),
                    res |-> getBlameForRangeSync(ParseBlame(shas, authorOf), start, end)]
        /\ UNCHANGED notUtil

SpecBlameRange == Init /\ [][CallGetBlameForRangeSync]_vars

\* ------------------------------------------------- search operation parsing
\* A query is a sequence of tokens: an operator, one blank, one double quote,
\* or a word (a run of characters holding no blank, no quote and no operator).
\* A value of the result is the run of tokens it is made of.
MaxTerms == 2

SearchOperators ==
    {"=:", "message:", "@:", "author:", "#:", "commit:", "?:", "file:", "~:", "change:"}

Blank == " "
Quote == "\""

\* (mutant) an operator is kept as it was typed
normalizeSearchOperatorsTyped(op) == op

normalizeSearchOperatorsMap(op) ==
    CASE op \in {"", "=:", "message:"} -> "message:"
      [] op \in {"@:", "author:"} -> "author:"
      [] op \in {"#:", "commit:"} -> "commit:"
      [] op \in {"?:", "file:"} -> "file:"
      [] op \in {"~:", "change:"} -> "change:"

\* a full 40 digit sha on its own
ShaWords == {"4b825dc642cb6eb9a060e54bf8d69288fbee4904"}
isSha(value) == Len(value) = 1 /\ value[1] \in ShaWords

\* (?:op|$) at token i
AtOperatorOrEnd(s, i) == i > Len(s) \/ s[i] \in SearchOperators

\* \s?(?:op|$) after the k tokens that start at i
ValueEndsAfter(s, i, k) ==
    LET j == i + k
    IN \/ AtOperatorOrEnd(s, j)
       \/ j <= Len(s) /\ s[j] = Blank /\ AtOperatorOrEnd(s, j + 1)

\* (?=(.*?)\s?(?:op|$)): the shortest run from i that ends at an operator or
\* at the end, one blank before it left out
LazyValue(s, i) ==
    LET k == CHOOSE k \in 0..(Len(s) + 1 - i) :
                 /\ ValueEndsAfter(s, i, k)
                 /\ \A m \in 0..(k - 1) : ~ValueEndsAfter(s, i, m)
    IN SubSeq(s, i, i + k - 1)

NoOperations == [k \in {} |-> <<>>]

\* operations.get(op) === undefined ? operations.set(op, [value]) : values.push(value)
PushValue(operations, op, value) ==
    [k \in DOMAIN operations \cup {op} |->
        IF k # op THEN operations[k]
        ELSE IF op \in DOMAIN operations THEN Append(operations[op], value)
        ELSE <<value>>]

\* the matches of /(".+"|[^\b\s]+)/g in message, from token i on
RECURSIVE MessageValues(_, _)
MessageValues(s, i) ==
    IF i > Len(s) THEN <<>>
    ELSE IF s[i] = Blank THEN MessageValues(s, i + 1)
    ELSE LET closing == {j \in (i + 2)..Len(s) : s[j] = Quote}
             run == {j \in i..Len(s) : \A m \in i..j : s[m] # Blank}
             e == IF s[i] = Quote /\ closing # {}
                  THEN CHOOSE j \in closing : \A m \in closing : m <= j
                  ELSE CHOOSE j \in run : \A m \in run : m <= j
         IN <<SubSeq(s, i, e)>> \o MessageValues(s, e + 1)

RECURSIVE PushValues(_, _, _)
PushValues(operations, op, values) ==
    IF values = <<>> THEN operations
    ELSE PushValues(PushValue(operations, op, Head(values)), op, Tail(values))

parseSearchMessageOperations(message, operations) ==
    IF message = <<>> THEN PushValue(operations, "message:", <<>>)
    ELSE PushValues(operations, "message:", MessageValues(message, 1))

\* the do/while over searchOperationRegex, lastIndex at token i
RECURSIVE SearchOperationMatches(_, _, _)
SearchOperationMatches(s, i, operations) ==
    LET at == {j \in i..Len(s) : s[j] \in SearchOperators}
    IN IF at = {} THEN operations
       ELSE LET j == CHOOSE j \in at : \A m \in at : j <= m
                from == IF j + 1 <= Len(s) /\ s[j + 1] = Blank THEN j + 2 ELSE j + 1
                op == normalizeSearchOperatorsMap(s[j])
                value == LazyValue(s, from)
            IN SearchOperationMatches(s, from,
                   IF op = "message:" THEN parseSearchMessageOperations(value, operations)
                   ELSE PushValue(operations, op, value))

parseSearchOperations(search) ==
    LET value == LazyValue(search, 1)
        first == IF value = <<>> THEN NoOperations
                 ELSE IF isSha(value) THEN PushValue(NoOperations, "commit:", value)
                 ELSE parseSearchMessageOperations(value, NoOperations)
    IN SearchOperationMatches(search, 1, first)

\* what is typed: some text, then terms, each an operator, a blank or none,
\* and a value; a value comes with the words it is made of
TermValues ==
    { [text |-> <<"alice">>, words |-> << <<"alice">> >>],
      [text |-> <<"deadbeef123">>, words |-> << <<"deadbeef123">> >>],
      [text |-> <<"fix", Blank, "bug">>, words |-> << <<"fix">>, <<"bug">> >>],
      [text |-> <<Quote, "fix", Blank, "bug", Quote>>,
       words |-> << <<Quote, "fix", Blank, "bug", Quote>> >>] }

FreeTexts ==
    { [text |-> <<>>, words |-> <<>>],
      [text |-> <<"4b825dc642cb6eb9a060e54bf8d69288fbee4904">>,
       words |-> << <<"4b825dc642cb6eb9a060e54bf8d69288fbee4904">> >>],
      [text |-> <<"fix", Blank, "bug">>, words |-> << <<"fix">>, <<"bug">> >>] }

SearchTerms == [op : SearchOperators, blank : BOOLEAN, value : TermValues]

TermText(term) == <<term.op>> \o (IF term.blank THEN <<Blank>> ELSE <<>>) \o term.value.text

RECURSIVE TermsText(_)
TermsText(terms) ==
    IF terms = <<>> THEN <<>>
    ELSE IF Len(terms) = 1 THEN TermText(terms[1])
    ELSE TermText(terms[1]) \o <<Blank>> \o TermsText(Tail(terms))

SearchText(free, terms) ==
    IF free.text = <<>> THEN TermsText(terms)
    ELSE IF terms = <<>> THEN free.text
    ELSE free.text \o <<Blank>> \o TermsText(terms)

CallParseSearchOperations ==
    /\ util = NoCall
    /\ \E free \in FreeTexts, terms \in UNION {[1..n -> SearchTerms] : n \in 0..MaxTerms} :
        /\ util' = [fn |-> "parseSearchOperations", free |-> free, terms |-> terms,
                    search |-> SearchText(free, terms),
                    res |-> parseSearchOperations(SearchText(free, terms))]
        /\ UNCHANGED notUtil

SpecSearchOps == InitTree /\ [][CallParseSearchOperations]_vars

\* ------------------------------------------------------- repository search
\* The workspace folder w and the directories beneath it, each with the names
\* fs.readdir answers for it; a directory of Gits also holds a .git directory
MaxDepth == 2
MaxUnreadable == 2

ScanRoot == <<"w">>

DirNames(d) ==
    CASE d = <<"w">> -> <<"a", "x">>
      [] d = <<"w", "a">> -> <<"b", "x">>
      [] d = <<"w", "x">> -> <<"a">>
      [] OTHER -> <<>>

ScanDirs ==
    {<<"w">>, <<"w", "a">>, <<"w", "x">>, <<"w", "a", "b">>, <<"w", "a", "x">>, <<"w", "x", "a">>}

DotGit == ".git"

\* files of fs.readdir(root, { withFileTypes: true }) that are directories
ReadDir(gits, root) == (IF root \in gits THEN <<DotGit>> ELSE <<>>) \o DirNames(root)

\* git rev-parse --show-toplevel in p: the nearest directory with a .git
ScanRevParse(gits, p) ==
    LET above == {d \in gits : IsPrefix(d, p)}
    IN IF above = {} THEN [k |-> "none", root |-> NoPath]
       ELSE [k |-> "root", root |-> CHOOSE d \in above : \A e \in above : Len(e) <= Len(d)]

\* an entry of files.exclude or search.exclude: a directory name, written
\* either bare or after "**/", and whether the entry is enabled
ExcludeKeys == [glob : BOOLEAN, name : {"x"}]
ExcludeSettings ==
    {[k \in {} |-> TRUE]}
    \cup {[k \in {key} |-> v] : key \in ExcludeKeys, v \in BOOLEAN}

\* { ...files.exclude, ...search.exclude }
MergeExcludes(files, search) ==
    [k \in DOMAIN files \cup DOMAIN search |->
        IF k \in DOMAIN search THEN search[k] ELSE files[k]]

\* excludedPaths: the keys with a truthy value, a leading "**/" cut off
ExcludedPaths(excludes) == {k.name : k \in {e \in DOMAIN excludes : excludes[e]}}

\* (mutant) the failure of a sub-directory is thrown on
SubSearchRethrown(sub) == sub

\* try { await this.repositorySearchCore(...) } catch (ex) { Logger.error(...) }
SubSearchCaught(sub) == [sub EXCEPT !.rejected = FALSE]

\* (mutant) the depth left is handed down as it came
DepthKept(depth) == depth

\* depth--
DepthBelow(depth) == depth - 1

\* repositorySearchCore; listed collects the directories fs.readdir listed
RECURSIVE repositorySearchCore(_, _, _, _, _)
RECURSIVE SearchFiles(_, _, _, _, _, _)
repositorySearchCore(disk, root, depth, excludes, acc) ==
    IF root \in disk.unreadable
    THEN [rejected |-> TRUE, repositories |-> acc.repositories, listed |-> acc.listed]
    ELSE SearchFiles(disk, root, ReadDir(disk.gits, root), DepthBelow(depth), excludes,
                     [acc EXCEPT !.listed = @ \cup {root}])

SearchFiles(disk, root, files, depth, excludes, acc) ==
    IF files = <<>>
    THEN [rejected |-> FALSE, repositories |-> acc.repositories, listed |-> acc.listed]
    ELSE LET f == Head(files)
         IN IF f = DotGit
            THEN SearchFiles(disk, root, Tail(files), depth, excludes,
                     [acc EXCEPT !.repositories = Append(@, Append(root, DotGit))])
            ELSE IF depth >= 0 /\ f \notin excludes
            THEN LET sub == SubSearchCaught(
                                repositorySearchCore(disk, Append(root, f), depth, excludes, acc))
                 IN IF sub.rejected THEN sub
                    ELSE SearchFiles(disk, root, Tail(files), depth, excludes,
                             [repositories |-> sub.repositories, listed |-> sub.listed])
            ELSE SearchFiles(disk, root, Tail(files), depth, excludes, acc)

\* paths.dirname
Dirname(p) == SubSeq(p, 1, Len(p) - 1)

\* the loop over repoPaths at the end of repositorySearch
RECURSIVE FoundRepositories(_, _, _, _)
FoundRepositories(disk, rootPath, found, repositories) ==
    IF found = <<>> THEN repositories
    ELSE LET p == Dirname(Head(found))
             rp == getRepoPathCore(ScanRevParse(disk.gits, p)).path
         IN FoundRepositories(disk, rootPath, Tail(found),
                IF p = rootPath \/ rp = NoPath THEN repositories
                ELSE Append(repositories, rp))

repositorySearch(disk, depth, filesExclude, searchExclude) ==
    LET rootPath == getRepoPathCore(ScanRevParse(disk.gits, ScanRoot)).path
        repositories == IF rootPath # NoPath THEN <<rootPath>> ELSE <<>>
        excludes == ExcludedPaths(MergeExcludes(filesExclude, searchExclude))
        found == repositorySearchCore(disk, ScanRoot, depth, excludes,
                                      [repositories |-> <<>>, listed |-> {}])
    IN IF depth <= 0 THEN [rejected |-> FALSE, repositories |-> repositories, listed |-> {}]
       ELSE IF found.rejected
       THEN [rejected |-> FALSE, repositories |-> repositories, listed |-> found.listed]
       ELSE [rejected |-> FALSE,
             repositories |-> FoundRepositories(disk, rootPath, found.repositories, repositories),
             listed |-> found.listed]

Disks ==
    [gits : SUBSET ScanDirs,
     unreadable : {u \in SUBSET ScanDirs : Cardinality(u) <= MaxUnreadable}]

CallRepositorySearch ==
    /\ util = NoCall
    /\ \E disk \in Disks, depth \in 0..MaxDepth,
          filesExclude \in ExcludeSettings, searchExclude \in ExcludeSettings :
        /\ util' = [fn |-> "repositorySearch", disk |-> disk, depth |-> depth,
                    filesExclude |-> filesExclude, searchExclude |-> searchExclude,
                    res |-> repositorySearch(disk, depth, filesExclude, searchExclude)]
        /\ UNCHANGED notUtil

SpecScan == InitTree /\ [][CallRepositorySearch]_vars

\* ------------------------------------------------------------- stash save
MaxUris == 2

\* the versions Git.getGitVersion can answer, as major.minor.patch
GitVersions == [major : 1..3, minor : {0, 12, 13, 14}, patch : 0..3]

\* Versions.compare of two parsed versions
VersionsCompare(a, b) ==
    IF a.major # b.major THEN (IF a.major < b.major THEN -1 ELSE 1)
    ELSE IF a.minor # b.minor THEN (IF a.minor < b.minor THEN -1 ELSE 1)
    ELSE IF a.patch # b.patch THEN (IF a.patch < b.patch THEN -1 ELSE 1)
    ELSE 0

\* (mutant) no version is too old
ensureGitVersionAny(gitVersion, version) == [threw |-> FALSE]

ensureGitVersion(gitVersion, version) ==
    [threw |-> VersionsCompare(gitVersion, version) = -1]

StashFiles == {"f", "g"}
StashUris == {None} \cup {Some(u) : u \in UNION {[1..n -> StashFiles] : n \in 0..MaxUris}}
StashOptions == [includeUntracked : BOOLEAN, keepIndex : BOOLEAN]

\* stashSave: calls are the Git.stash__push calls made, ensured tells whether
\* ensureGitVersion was called
stashSave(gitVersion, uris, options) ==
    IF uris = None
    THEN [threw |-> FALSE, ensured |-> FALSE,
          calls |-> <<[options |-> options, pathspecs |-> None]>>]
    ELSE IF ensureGitVersion(gitVersion, [major |-> 2, minor |-> 13, patch |-> 2]).threw
    THEN [threw |-> TRUE, ensured |-> TRUE, calls |-> <<>>]
    ELSE [threw |-> FALSE, ensured |-> TRUE,
          calls |-> <<[options |-> options,
                       pathspecs |-> Some([i \in DOMAIN uris[1] |-> <<".", uris[1][i]>>])]>>]

CallStashSave ==
    /\ util = NoCall
    /\ \E gitVersion \in GitVersions, uris \in StashUris, options \in StashOptions :
        /\ util' = [fn |-> "stashSave", gitVersion |-> gitVersion, uris |-> uris,
                    res |-> stashSave(gitVersion, uris, options)]
        /\ UNCHANGED notUtil

SpecStash == InitTree /\ [][CallStashSave]_vars

\* ------------------------------------------------ apply changes to the file
\* One call of applyChangesToWorkingFile, held in util while it runs: st is
\* the await it stands at, applies the Git.apply calls made so far
ApplyMessages == {"error: patch does not apply", "error: Patch Does Not Apply", "fatal: bad revision"}

\* /patch does not apply/i.test(ex.message)
PatchDoesNotApply(message) ==
    message \in {"error: patch does not apply", "error: Patch Does Not Apply"}

\* (mutant) only the answer No stops the retry
RetryUnlessNo(answer) == answer # "No"

\* the retry goes ahead: result !== undefined && result.title === 'Yes'
RetryConfirmed(answer) == answer # Undef /\ answer = "Yes"

ApplyDone(u) == [u EXCEPT !.st = "done"]

\* Logger.error(ex, cc); Messages.showGenericErrorMessage(...)
ApplyFailed(u, message) == [u EXCEPT !.st = "done", !.shown = Append(@, message)]

\* the catch block, up to the prompt
ApplyCaught(u, message) ==
    IF u.patch \notin {Undef, emptyStr} /\ PatchDoesNotApply(message)
    THEN [u EXCEPT !.st = "prompt", !.prompts = @ + 1]
    ELSE ApplyFailed(u, message)

CallApplyChanges ==
    /\ util = NoCall
    /\ \E ref1 \in {Undef, "r1"}, sha \in {Undef, "s"}, ref2 \in {Undef, "r2"},
          repoPath \in {Undef, "repo"} :
        LET first == IF ref1 # Undef THEN ref1 ELSE sha
            u == [fn |-> "applyChangesToWorkingFile", st |-> "done",
                  ref1 |-> Undef, ref2 |-> Undef, patch |-> Undef, applies |-> <<>>,
                  failure |-> Undef, prompts |-> 0, answer |-> "none", shown |-> <<>>]
        IN util' = IF first = Undef \/ repoPath = Undef THEN u
                   ELSE IF ref2 = Undef
                   THEN [u EXCEPT !.st = "diff", !.ref1 = <<first, "^">>, !.ref2 = <<first>>]
                   ELSE [u EXCEPT !.st = "diff", !.ref1 = <<first>>, !.ref2 = <<ref2>>]
    /\ UNCHANGED notUtil

\* "patch = await Git.diff(...)" settles; on success Git.apply is called
ApplyDiffDone ==
    /\ util.fn = "applyChangesToWorkingFile" /\ util.st = "diff"
    /\ \/ \E patch \in {emptyStr, "patch"} :
            util' = [util EXCEPT !.st = "apply", !.patch = patch,
                                 !.applies = Append(@, [allowConflicts |-> FALSE])]
       \/ \E message \in ApplyMessages : util' = ApplyCaught(util, message)
    /\ UNCHANGED notUtil

\* "await Git.apply(uri.repoPath, patch)" settles
ApplyFirstDone ==
    /\ util.fn = "applyChangesToWorkingFile" /\ util.st = "apply"
    /\ \/ util' = ApplyDone(util)
       \/ \E message \in ApplyMessages :
            util' = ApplyCaught([util EXCEPT !.failure = message], message)
    /\ UNCHANGED notUtil

\* window.showWarningMessage settles with the item chosen, or undefined
ApplyPromptAnswered ==
    /\ util.fn = "applyChangesToWorkingFile" /\ util.st = "prompt"
    /\ \E answer \in {Undef, "Yes", "No"} :
        util' = IF RetryConfirmed(answer)
                THEN [util EXCEPT !.st = "retry", !.answer = answer,
                                  !.applies = Append(@, [allowConflicts |-> TRUE])]
                ELSE ApplyDone([util EXCEPT !.answer = answer])
    /\ UNCHANGED notUtil

\* "await Git.apply(uri.repoPath, patch, { allowConflicts: true })" settles
ApplyRetryDone ==
    /\ util.fn = "applyChangesToWorkingFile" /\ util.st = "retry"
    /\ \/ util' = ApplyDone(util)
       \/ \E message \in ApplyMessages : util' = ApplyFailed(util, message)
    /\ UNCHANGED notUtil

NextApply ==
    \/ CallApplyChanges
    \/ ApplyDiffDone
    \/ ApplyFirstDone
    \/ ApplyPromptAnswered
    \/ ApplyRetryDone

SpecApply == InitTree /\ [][NextApply]_vars

\* --------------------------------------------------- pull request of a commit
\* One call of getPullRequestForCommit, held in util. A remote is named by its
\* place in GitRemote.sort(remotes), 0 stands for no remote; the pull request
\* a provider holds is named by its remote, [of |-> 0] stands for none
MaxRemotes == 2

NoPR == [of |-> 0]

\* a remote: whether its provider has an api, is the default, is connected,
\* and what provider.getPullRequestForCommit answers: a cached pull request,
\* a cached miss, or a request in flight
PrRemotes ==
    [hasApi : BOOLEAN, default : BOOLEAN, connected : BOOLEAN, lookup : {"pr", "none", "request"}]

\* GitRemote.sort: the default remotes first
PrRemoteLists ==
    {r \in UNION {[1..n -> PrRemotes] : n \in 0..MaxRemotes} :
        \A i, j \in DOMAIN r : (i < j /\ r[j].default) => r[i].default}

\* for (const remote of GitRemote.sort(remotes)) { ... }
RECURSIVE PrLoop(_, _, _)
PrLoop(remotes, i, pr) ==
    IF i > Len(remotes) THEN pr
    ELSE LET remote == remotes[i]
         IN IF ~remote.hasApi THEN PrLoop(remotes, i + 1, pr)
            ELSE IF ~remote.connected
            THEN PrLoop(remotes, i + 1, IF pr.remote = 0 THEN [pr EXCEPT !.remote = i] ELSE pr)
            ELSE IF ~pr.found
            THEN IF remote.lookup # "request"
                 THEN [pr EXCEPT !.found = remote.default,
                                 !.item = IF remote.lookup = "pr" THEN [of |-> i] ELSE NoPR,
                                 !.remote = IF remote.lookup = "pr" THEN i ELSE 0]
                 ELSE PrLoop(remotes, i + 1,
                          [pr EXCEPT !.found = remote.default, !.prs = Append(@, i)])
            ELSE IF pr.remote # 0 THEN pr
            ELSE PrLoop(remotes, i + 1, pr)

\* the call up to "await Promises.cancellable(...)": returned tells what the
\* promise resolved with so far ("undefined", the result "pr", or "pending")
CallGetPullRequestForCommit ==
    /\ util = NoCall
    /\ \E enabled \in BOOLEAN, uncommitted \in BOOLEAN, remotes \in PrRemoteLists :
        LET pr == PrLoop(remotes, 1, [item |-> NoPR, remote |-> 0, prs |-> <<>>, found |-> FALSE])
            u == [fn |-> "getPullRequestForCommit", remotes |-> remotes, returned |-> "undefined",
                  item |-> NoPR, remote |-> 0, timeout |-> FALSE, pending |-> {},
                  cached |-> pr.item, elapsed |-> FALSE, first |-> NoPR]
        IN util' = IF ~enabled \/ remotes = <<>> \/ uncommitted THEN u
                   ELSE IF pr.prs = <<>>
                   THEN [u EXCEPT !.returned = "pr", !.item = pr.item, !.remote = pr.remote]
                   ELSE [u EXCEPT !.returned = "pending", !.item = pr.item,
                                  !.pending = SeqSet(pr.prs)]
    /\ UNCHANGED notUtil

\* a request of prs settles: Promises.first resolves with the first pull
\* request, or with undefined once every request has settled without one
PrRequestSettled ==
    /\ util.fn = "getPullRequestForCommit" /\ util.returned = "pending"
    /\ \E i \in util.pending, found \in BOOLEAN :
        util' = IF found
                THEN [util EXCEPT !.returned = "pr", !.item = [of |-> i], !.remote = i,
                                  !.pending = {}, !.first = [of |-> i]]
                ELSE IF util.pending = {i}
                THEN [util EXCEPT !.returned = "pr", !.item = NoPR, !.remote = 0, !.pending = {}]
                ELSE [util EXCEPT !.pending = @ \ {i}]
    /\ UNCHANGED notUtil

\* the timeout elapses first: onDidCancel sets pr.timeout and resolves undefined
PrTimeoutElapsed ==
    /\ util.fn = "getPullRequestForCommit" /\ util.returned = "pending"
    /\ util' = [util EXCEPT !.returned = "pr", !.item = NoPR, !.remote = 0, !.pending = {},
                            !.timeout = TRUE, !.elapsed = TRUE]
    /\ UNCHANGED notUtil

NextPr ==
    \/ CallGetPullRequestForCommit
    \/ PrRequestSettled
    \/ PrTimeoutElapsed

SpecPr == InitTree /\ [][NextPr]_vars

\* SpecTracked: retrievals for the deleted-or-missing revision, next to
\* retrievals that do ask ls-files
SentinelRequests == {BlameReq(deletedOrMissingSha), BlameReq(Undef)}

SentinelFileRequests ==
    {LogFileReq(deletedOrMissingSha, Some(1), FALSE, FALSE),
     LogFileReq(Undef, Some(0), FALSE, FALSE)}

NextTracked ==
    \/ \E t \in Tasks, r \in SentinelRequests : Call(t, r)
    \/ \E t \in Tasks, r \in SentinelFileRequests : CallLogForFile(t, r)
    \/ \E t \in Tasks : ResumeWhole(t)
    \/ \E t \in Tasks, ok \in BOOLEAN : LsDone(t, ok)
    \/ \E t \in Tasks : TrackedResume(t)
    \/ \E t \in Tasks, o \in {"data", "fail"} : ProcDone(t, o)

SpecTracked == Init /\ [][NextTracked]_vars

\* ----------------------------------------------------------- search arguments
MaxArgTerms == 1

\* value.replace(doubleQuoteRegex, with): every double quote of the value
\* replaced by the tokens of with
RECURSIVE ReplaceQuotes(_, _)
ReplaceQuotes(value, with) ==
    IF value = <<>> THEN <<>>
    ELSE (IF Head(value) = Quote THEN with ELSE <<Head(value)>>) \o ReplaceQuotes(Tail(value), with)

\* (mutant) the commit: operation is not looked at
CommitValuesIgnored(operations) == [defined |-> FALSE, values |-> <<>>]

\* operations.get('commit:')
CommitValues(operations) ==
    IF "commit:" \in DOMAIN operations
    THEN [defined |-> TRUE, values |-> operations["commit:"]]
    ELSE [defined |-> FALSE, values |-> <<>>]

\* `-M${similarityThreshold == null ? '' : `${similarityThreshold}%`}`
SimilarityArg(threshold) == <<"-M" \o threshold>>

ValuesOf(operations, op) ==
    IF op \in DOMAIN operations THEN SeqSet(operations[op]) ELSE {}

\* the arguments getLogForSearch hands to Git.log__search: searchArgs as the
\* set of its values (an argument is the run of tokens it is written with),
\* the files after "--", and useShow
getLogForSearchArgs(pattern, matchAll, matchCase, matchRegex, threshold) ==
    LET operations == parseSearchOperations(pattern)
        commits == CommitValues(operations)
    IN IF commits.defined
       THEN [useShow |-> TRUE,
             searchArgs |-> {<<"-m">>, SimilarityArg(threshold)}
                            \cup {ReplaceQuotes(v, <<>>) : v \in SeqSet(commits.values)},
             files |-> <<>>]
       ELSE [useShow |-> FALSE,
             searchArgs |->
                 {SimilarityArg(threshold), <<"--all">>, <<"--full-history">>}
                 \cup {IF matchRegex THEN <<"--extended-regexp">> ELSE <<"--fixed-strings">>}
                 \cup (IF matchRegex /\ ~matchCase THEN {<<"--regexp-ignore-case">>} ELSE {})
                 \cup (IF DOMAIN operations \cap {"message:", "author:"} # {} THEN {<<"-m">>} ELSE {})
                 \cup (IF "message:" \in DOMAIN operations /\ matchAll THEN {<<"--all-match">>} ELSE {})
                 \cup {<<"--grep=">> \o ReplaceQuotes(v, <<"\\b">>) : v \in ValuesOf(operations, "message:")}
                 \cup {<<"--author=">> \o ReplaceQuotes(v, <<"\\b">>) : v \in ValuesOf(operations, "author:")}
                 \cup {<<"-G">> \o v : v \in ValuesOf(operations, "change:")},
             files |-> IF "file:" \in DOMAIN operations
                       THEN [i \in 1..Len(operations["file:"]) |->
                                ReplaceQuotes(operations["file:"][i], <<>>)]
                       ELSE <<>>]

SimilarityThresholds == {"", "50%"}

CallGetLogForSearch ==
    /\ util = NoCall
    /\ \E free \in FreeTexts, terms \in UNION {[1..n -> SearchTerms] : n \in 0..MaxArgTerms},
          matchAll \in BOOLEAN, matchCase \in BOOLEAN, matchRegex \in BOOLEAN,
          threshold \in SimilarityThresholds :
        /\ util' = [fn |-> "getLogForSearch", free |-> free, terms |-> terms,
                    pattern |-> SearchText(free, terms),
                    operations |-> parseSearchOperations(SearchText(free, terms)),
                    res |-> getLogForSearchArgs(SearchText(free, terms), matchAll, matchCase,
                                                matchRegex, threshold)]
        /\ UNCHANGED notUtil

SpecSearchArgs == InitTree /\ [][CallGetLogForSearch]_vars

\* ------------------------------------------------- blame annotation provider
\* One provider on one editor of one tracked document: whether the document
\* is dirty, the version of its text, where the provider's blame came from and
\* the text version it is of, and the document's one-shot flag
MaxEdits == 3
MaxProviderResets == 2

\* editor.document.isDirty ? getBlameForFileContents(...) : getBlameForFile(...)
BlameSource(dirty) == IF dirty THEN "contents" ELSE "file"

\* new BlameAnnotationProviderBase(editor, trackedDocument, ...)
ProviderConstructed ==
    /\ util = NoCall
    /\ \E dirty \in BOOLEAN :
        util' = [fn |-> "blameProvider", last |-> "construct", editor |-> TRUE,
                 dirty |-> dirty, version |-> 0,
                 source |-> BlameSource(dirty), blameVersion |-> 0, stale |-> FALSE,
                 armed |-> dirty, armedNow |-> dirty, resets |-> 0]
    /\ UNCHANGED notUtil

\* onReset
ProviderReset ==
    /\ util.fn = "blameProvider"
    /\ util.resets < MaxProviderResets
    /\ util' = IF util.editor
               THEN [util EXCEPT !.last = "reset", !.resets = @ + 1, !.armedNow = FALSE,
                                 !.source = BlameSource(util.dirty),
                                 !.blameVersion = util.version, !.stale = FALSE]
               ELSE [util EXCEPT !.last = "reset", !.resets = @ + 1, !.armedNow = FALSE]
    /\ UNCHANGED notUtil

\* the text of the document changes: the document is dirty from now on; the
\* tracker announces a dirty state change when the state did change or when
\* the flag is armed, which consumes the flag and resets the provider's blame
DocumentChanged ==
    /\ util.fn = "blameProvider"
    /\ util.version < MaxEdits
    /\ util' = [util EXCEPT !.last = "change", !.dirty = TRUE, !.version = @ + 1,
                            !.armed = FALSE, !.armedNow = FALSE,
                            !.stale = ~(util.armed \/ ~util.dirty)]
    /\ UNCHANGED notUtil

\* the document is saved: a dirty state change
DocumentSaved ==
    /\ util.fn = "blameProvider"
    /\ util.dirty
    /\ util' = [util EXCEPT !.last = "save", !.dirty = FALSE, !.armedNow = FALSE, !.stale = FALSE]
    /\ UNCHANGED notUtil

\* the editor of the provider goes away
EditorClosed ==
    /\ util.fn = "blameProvider"
    /\ util.editor
    /\ util' = [util EXCEPT !.last = "close", !.editor = FALSE, !.armedNow = FALSE]
    /\ UNCHANGED notUtil

NextProvider ==
    \/ ProviderConstructed
    \/ ProviderReset
    \/ DocumentChanged
    \/ DocumentSaved
    \/ EditorClosed

SpecProvider == InitTree /\ [][NextProvider]_vars

\* SpecDiff: diffs of one document between several pairs of revisions
DiffRequests ==
    {DiffReq(Commit(1), Undef), DiffReq(Undef, Commit(1)),
     DiffReq(Commit(1), Commit(2)), DiffReq(Commit(2), Commit(1))}

NextDiff ==
    \/ \E t \in Tasks, r \in DiffRequests : Call(t, r)
    \/ \E t \in Tasks, o \in {"data", "empty", "fail"} : ProcDone(t, o)
    \/ Reset

SpecDiff == Init /\ [][NextDiff]_vars

\* SpecCopy: logs of the file from a commit, asked for while the log of the
\* whole file is cached or being fetched
CopyRequests ==
    {LogFileReq(Undef, Some(0), FALSE, FALSE),
     LogFileReq(Commit(2), Some(0), FALSE, FALSE),
     LogFileReq(Commit(2), Some(1), FALSE, FALSE),
     LogFileReq(Commit(3), Some(2), FALSE, FALSE)}

NextCopy ==
    \/ \E t \in Tasks, r \in CopyRequests : CallLogForFile(t, r)
    \/ \E t \in Tasks : ResumeWhole(t)
    \/ \E t \in Tasks, ok \in BOOLEAN : LsDone(t, ok)
    \/ \E t \in Tasks : TrackedResume(t)
    \/ \E t \in Tasks, o \in {"data", "fail"} : ProcDone(t, o)

SpecCopy == InitLog /\ [][NextCopy]_vars

\* SpecReverse: paginated logs of the file in both orders and their more
\* continuations
ReverseFileRequests ==
    {LogFileReq(Undef, Some(2), TRUE, FALSE), LogFileReq(Undef, Some(1), FALSE, FALSE)}

NextReverse ==
    \/ \E t \in Tasks, r \in ReverseFileRequests : CallLogForFile(t, r)
    \/ \E t \in Tasks, r \in {SearchReq(Some(1), 0)} : CallLog(t, r)
    \/ \E t \in Tasks, id \in 1..Len(logs), arg \in MoreArgs : CallMore(t, id, arg)
    \/ \E t \in Tasks : Merge(t)
    \/ \E t \in Tasks, ok \in BOOLEAN : LsDone(t, ok)
    \/ \E t \in Tasks : TrackedResume(t)
    \/ \E t \in Tasks, o \in {"data", "fail"} : ProcDone(t, o)

SpecReverse == InitLog /\ [][NextReverse]_vars

\* ------------------------------------ the pull-request cache of a provider
MaxPrCalls == 3
MaxClears == 2

PrRefs == {"c1", "c2"}

\* RemoteProviderWithApi after its constructor: no credentials read yet and
\* an empty _prsByCommit. cores are the calls of getPullRequestForCommitCore
\* made so far, each with the number of clears seen when it began.
RemoteProviderCreated ==
    /\ util = NoCall
    /\ util' = [fn |-> "prCache", credentials |-> Undef, prsByCommit |-> <<>>,
                cores |-> <<>>, clears |-> 0, last |-> "created"]
    /\ UNCHANGED notUtil

\* saveCredentials, as connect calls it
saveCredentials ==
    /\ util.fn = "prCache"
    /\ util.credentials # "token"
    /\ util' = [util EXCEPT !.credentials = "token", !.last = "saveCredentials"]
    /\ UNCHANGED notUtil

\* getPullRequestForCommit: the entry of the cache, or a call of
\* getPullRequestForCommitCore (which runs to "await this.isConnected()",
\* credentials() being read or requested on the way) whose promise is cached
getPullRequestForCommit(ref) ==
    /\ util.fn = "prCache"
    /\ IF ref \in DOMAIN util.prsByCommit
       THEN util' = [util EXCEPT !.last = "cached"]
       ELSE /\ Len(util.cores) < MaxPrCalls
            /\ util' = [util EXCEPT
                  !.cores = Append(@, [ref |-> ref,
                                       pc |-> IF util.credentials = Undef THEN "getAs"
                                              ELSE "isConnected",
                                       had |-> util.credentials,
                                       epoch |-> util.clears,
                                       result |-> "none"]),
                  !.prsByCommit = (ref :> [k |-> "promise", by |-> Len(util.cores) + 1])
                                  @@ @,
                  !.last = "core"]
    /\ UNCHANGED notUtil

\* getPullRequestForCommitCore after "await this.isConnected()": c is what
\* CredentialManager.getAs answered when credentials() had to ask for it
IsConnectedDone(n, c) ==
    /\ util.fn = "prCache"
    /\ n \in 1..Len(util.cores)
    /\ util.cores[n].pc \in {"getAs", "isConnected"}
    /\ LET asked == util.cores[n].pc = "getAs"
           creds == IF asked THEN c ELSE util.cores[n].had
       IN /\ ~asked => c = "null"
          /\ util' = [util EXCEPT
                !.credentials = IF asked THEN c ELSE @,
                !.cores[n].pc = IF creds = "token" THEN "lookup" ELSE "done",
                !.cores[n].result = IF creds = "token" THEN "none" ELSE "null",
                !.last = "isConnected"]
    /\ UNCHANGED notUtil

\* getPullRequestForCommitCore after "await this.onGetPullRequestForCommit"
OnGetPullRequestForCommitDone(n, o) ==
    /\ util.fn = "prCache"
    /\ n \in 1..Len(util.cores)
    /\ util.cores[n].pc = "lookup"
    /\ LET ref == util.cores[n].ref
       IN util' = [util EXCEPT
             !.cores[n].pc = "done",
             !.cores[n].result = o,
             !.prsByCommit =
                 IF o = "fail" THEN [r \in DOMAIN @ \ {ref} |-> @[r]]
                 ELSE (ref :> [k |-> o, by |-> n]) @@ @,
             !.last = "lookup"]
    /\ UNCHANGED notUtil

\* onCredentialsCleared for this provider's key (or for every key)
onCredentialsCleared ==
    /\ util.fn = "prCache"
    /\ util.clears < MaxClears
    /\ util' = [util EXCEPT !.credentials = Undef, !.prsByCommit = <<>>,
                            !.clears = @ + 1, !.last = "cleared"]
    /\ UNCHANGED notUtil

\* disconnect, up to the await in clearCredentials
disconnect ==
    /\ util.fn = "prCache"
    /\ util.clears < MaxClears
    /\ util' = [util EXCEPT !.prsByCommit = <<>>, !.credentials = Undef,
                            !.clears = @ + 1, !.last = "disconnect"]
    /\ UNCHANGED notUtil

NextPrCache ==
    \/ RemoteProviderCreated
    \/ saveCredentials
    \/ \E ref \in PrRefs : getPullRequestForCommit(ref)
    \/ \E n \in 1..MaxPrCalls, c \in {"token", "null"} : IsConnectedDone(n, c)
    \/ \E n \in 1..MaxPrCalls, o \in {"pr", "null", "fail"} : OnGetPullRequestForCommitDone(n, o)
    \/ onCredentialsCleared
    \/ disconnect

SpecPrCache == InitTree /\ [][NextPrCache]_vars

\* ------------------------------------------------------------ getWorkingUri
WorkingNames == {"a", "b"}

WorkingRefs == {Commit(1), Commit(2)}

\* what the three git invocations of getWorkingUri answer in one repository:
\* the names ls-files finds, the most recent commit of each name, and the
\* rename the nearest commit with renames records, seen from each commit
WorkingRepos ==
    [tree    : SUBSET WorkingNames,
     recent  : [WorkingNames -> WorkingRefs \cup {Undef}],
     renamed : [WorkingRefs -> {<<>>} \cup {<<f, g>> : f \in WorkingNames, g \in WorkingNames}]]

\* GitLogParser.parseSimpleRenamed: the new name of fileName in the record
parseSimpleRenamed(data, fileName) ==
    IF data # <<>> /\ data[1] = fileName /\ data[2] # fileName THEN data[2] ELSE Undef

\* getWorkingUri up to "await Git.ls_files(repoPath, fileName)"
CallGetWorkingUri(repo, fileName) ==
    /\ util = NoCall
    /\ util' = [fn |-> "workingUri", repo |-> repo, fileName |-> fileName,
                pc |-> "ls_files", ref |-> Undef, result |-> Undef]
    /\ UNCHANGED notUtil

\* after "await Git.ls_files": the name is in the working tree, or the most
\* recent commit of the name is asked for
LsFilesDone ==
    /\ util.fn = "workingUri"
    /\ util.pc = "ls_files"
    /\ util' = IF util.fileName \in util.repo.tree
               THEN [util EXCEPT !.pc = "done", !.result = util.fileName]
               ELSE [util EXCEPT !.pc = "log__file_recent"]
    /\ UNCHANGED notUtil

\* after "await Git.log__file_recent": undefined when the name has no commit
LogFileRecentDone ==
    /\ util.fn = "workingUri"
    /\ util.pc = "log__file_recent"
    /\ util' = IF util.repo.recent[util.fileName] = Undef
               THEN [util EXCEPT !.pc = "done", !.result = Undef]
               ELSE [util EXCEPT !.pc = "log__file", !.ref = util.repo.recent[util.fileName]]
    /\ UNCHANGED notUtil

\* after "await Git.log__file(repoPath, '.', ref, { filters: ['R'], ... })":
\* the name itself when no rename of it is recorded, else the loop goes on
\* with the new name
LogFileRenamesDone ==
    /\ util.fn = "workingUri"
    /\ util.pc = "log__file"
    /\ LET renamedFile == parseSimpleRenamed(util.repo.renamed[util.ref], util.fileName)
       IN util' = IF renamedFile = Undef
                  THEN [util EXCEPT !.pc = "done", !.result = util.fileName]
                  ELSE [util EXCEPT !.pc = "ls_files", !.fileName = renamedFile]
    /\ UNCHANGED notUtil

NextWorking ==
    \/ \E repo \in WorkingRepos, fileName \in WorkingNames : CallGetWorkingUri(repo, fileName)
    \/ LsFilesDone
    \/ LogFileRecentDone
    \/ LogFileRenamesDone

\* every subprocess getWorkingUri awaits ends
SpecWorking == InitTree /\ [][NextWorking]_vars /\ WF_vars(NextWorking)

\* SpecRemoval: folders removed while the search of an added folder is awaited
\* onWorkspaceFoldersChanged for an event that only removes folders, delivered
\* while an earlier call of the handler awaits repositorySearch: with nothing
\* added it reaches the loop over e.removed without an await
FoldersRemovedMeanwhile(removed) ==
    /\ handler.st = "search"
    /\ folderEvents < MaxFolderEvents
    /\ removed # <<>>
    /\ FoldersRemoved(repositoryTree, repoPaths, removed)
    /\ handler' = handler
    /\ UNCHANGED <<pathCalls, focusVars, notTree>>

NextRemoval ==
    \/ \E added \in AddedLists : onWorkspaceFoldersChanged(added, <<>>)
    \/ \E removed \in AddedLists : FoldersRemovedMeanwhile(removed)
    \/ \E found \in SUBSET RepoDirs : RepositorySearchDone(found)
    \/ \E c \in PathCallIds, path \in FilePaths \cup {NoPath}, tracked \in BOOLEAN :
          StartGetRepoPath(c, path, tracked)
    \/ \E c \in PathCallIds, o \in RevParseOutcomes : EndGetRepoPath(c, o)

SpecRemoval == InitTree /\ [][NextRemoval]_vars

\* ================================================================== claims
CachedOps == {"blame", "diff", "logFile"}

\* the call t1 was still in flight when t2 was issued, both for the same
\* document and key, and the document state was never reset
Coalesced(t1, t2) ==
    /\ t1 # t2
    /\ pc[t1] # "idle" /\ pc[t2] # "idle"
    /\ ~IsMore(t1) /\ ~IsMore(t2)
    /\ req[t1].op \in CachedOps
    /\ req[t1].op = req[t2].op
    /\ Key(req[t1]) = Key(req[t2])
    /\ ~req[t1].range /\ ~req[t2].range
    /\ t1 \in liveAt[t2]
    /\ resets = 0

\* C1: with caching enabled, calls for the same document and key issued
\* before the first one resolves invoke the subprocess once and all resolve
\* to the identical value
C1_CacheCoalescing ==
    useCaching =>
        \A t1, t2 \in Tasks :
            Coalesced(t1, t2) =>
                /\ ~(spawned[t1] /\ spawned[t2])
                /\ (RetSettled(t1) /\ RetSettled(t2)) => RetValue(t1) = RetValue(t2)

\* (the part of C1 that the code keeps: blame and diff requests)
C1_CoalescingBlameDiff ==
    useCaching =>
        \A t1, t2 \in Tasks :
            (Coalesced(t1, t2) /\ req[t1].op # "logFile") =>
                /\ ~(spawned[t1] /\ spawned[t2])
                /\ (RetSettled(t1) /\ RetSettled(t2)) => RetValue(t1) = RetValue(t2)

\* t2 repeats the blame request of t1, whose subprocess failed, and the
\* document state was never reset
RepeatsFailedBlame(t1, t2) ==
    /\ t1 < t2
    /\ req[t1].op = "blame"
    /\ req[t2] = req[t1]
    /\ outcome[t1] = "fail"
    /\ pc[t2] # "idle"
    /\ resets = 0

\* C2: with caching enabled, a blame request repeated after its subprocess
\* failed resolves to undefined without a second subprocess invocation, and
\* the cache entry of the key carries the error message of the failure
C2_EmptySentinelCached ==
    useCaching =>
        \A t1, t2 \in Tasks :
            RepeatsFailedBlame(t1, t2) =>
                /\ ~spawned[t2]
                /\ RetSettled(t2) /\ RetValue(t2) = UndefV
                /\ docState.defined
                /\ Key(req[t1]) \in DOMAIN docState.map
                /\ docState.map[Key(req[t1])] = Entry(emptyPromise, ErrorText(t1))

C2_Witness ==
    /\ useCaching
    /\ \E t1, t2 \in Tasks : RepeatsFailedBlame(t1, t2) /\ liveAt[t2] = {}

Replaces(t) ==
    /\ docState.defined
    /\ req[t].op = "logFile" => (~req[t].range /\ ~req[t].reverse)

FailedAndTrapped(t, op) ==
    /\ req[t].op = op
    /\ outcome[t] = "fail"
    /\ core[t] = Resolved(UndefV)
    /\ docState.defined
    /\ Key(req[t]) \in DOMAIN docState.map
    /\ docState.map[Key(req[t])] = Entry(emptyPromise, ErrorText(t))

TrackedFalse(t) ==
    /\ req[t].op \in {"blame", "blameContents", "logFile"}
    /\ core[t].st # "none"
    /\ pc[t] # "isTracked"
    /\ \/ waitTrk[t].k = "value" /\ ~waitTrk[t].v
       \/ waitTrk[t].k = "promise" /\ ls[waitTrk[t].p].st = "resolved" /\ ~ls[waitTrk[t].p].v

MoreReturned(t) == IsMore(t) /\ pc[t] = "merged"

\* the same call, when its query brought a page back
MoreSucceeded(t) ==
    /\ MoreReturned(t)
    /\ cont[t].until = Undef
    /\ RetSettled(t)
    /\ RetValue(t) # UndefV

\* C3: the more continuation of a Log whose hasMore is false returns a Log
\* with hasMore false and the same commits and count
C3_MoreIdempotent ==
    \A t \in Tasks :
        (MoreReturned(t) /\ ~cont[t].snap.hasMore) =>
            /\ ~logs[out[t].id].hasMore
            /\ logs[out[t].id].count = cont[t].snap.count
            /\ logs[out[t].id].commits = cont[t].snap.commits

\* the first page of the file's history, as getLogForFile with limit 2 asks it
FirstPageReq == LogFileReq(Undef, Some(2), FALSE, FALSE)

\* C4: over the history c1, c2, c3 (HEAD), getLogForFile with limit 2
\* returns c3, c2 with hasMore true, and more(1) on that Log returns
\* c3, c2, c1 in that order with hasMore false
C4_EndToEnd ==
    HistLen = 3 =>
        /\ \A t \in Tasks :
              (~IsMore(t) /\ req[t] = FirstPageReq /\ RetSettled(t) /\ RetValue(t) # UndefV) =>
                  /\ logs[RetValue(t).id].commits = <<Commit(3), Commit(2)>>
                  /\ logs[RetValue(t).id].hasMore
        /\ \A t \in Tasks :
              (/\ MoreSucceeded(t)
               /\ cont[t].limit = 1
               /\ cont[t].snap.opts = FirstPageReq
               /\ cont[t].snap.commits = <<Commit(3), Commit(2)>>
               /\ cont[t].snap.hasMore) =>
                  /\ logs[out[t].id].commits = <<Commit(3), Commit(2), Commit(1)>>
                  /\ ~logs[out[t].id].hasMore

C4_Witness ==
    \E t \in Tasks :
        /\ MoreSucceeded(t)
        /\ cont[t].limit = 1
        /\ cont[t].snap.opts = FirstPageReq
        /\ cont[t].snap.commits = <<Commit(3), Commit(2)>>
        /\ logs[out[t].id].commits = <<Commit(3), Commit(2), Commit(1)>>

\* C5: a successful more(limit) returns a new Log whose commits are those of
\* the Log it was called on followed by the fetched page, whose count is the
\* sum of both, whose hasMore is the page's and whose more continuation is
\* bound to the new Log; the Log it was called on is unchanged
C5_MoreMerges ==
    \A t \in Tasks :
        MoreSucceeded(t) =>
            /\ out[t].id # cont[t].of
            /\ out[t].id # RetValue(t).id
            /\ logs[out[t].id].commits = cont[t].snap.commits \o logs[RetValue(t).id].commits
            /\ logs[out[t].id].count = cont[t].snap.count + logs[RetValue(t).id].count
            /\ logs[out[t].id].hasMore = logs[RetValue(t).id].hasMore
            /\ logs[out[t].id].more = out[t].id
            /\ logs[cont[t].of] = cont[t].snap

C5_Witness ==
    \E t \in Tasks :
        /\ MoreSucceeded(t)
        /\ logs[RetValue(t).id].count > 0
        /\ logs[out[t].id].count > cont[t].snap.count
        /\ logs[cont[t].of] = cont[t].snap

PreviousFns == {"getPreviousUri", "getPreviousDiffUris", "getPreviousLineDiffUris"}

\* C6: getPreviousUri, getPreviousDiffUris and getPreviousLineDiffUris called
\* with the deleted-or-missing sha resolve to undefined and invoke no
\* subprocess, whatever skip, line and firstParent are
C6_PreviousShortCircuit ==
    (nav.fn \in PreviousFns /\ nav.ref = deletedOrMissingSha) =>
        (nav.res = UndefV /\ nav.calls = <<>>)

C6_Witness ==
    /\ nav.fn = "getPreviousLineDiffUris"
    /\ nav.ref = deletedOrMissingSha
    /\ nav.skip = MaxSkip
    /\ nav.res = UndefV

\* C7 (as claimed): getNextUri and getNextDiffUris called with the
\* deleted-or-missing sha resolve to undefined and invoke no subprocess
C7_NextShortCircuit ==
    (nav.fn \in {"getNextUri", "getNextDiffUris"} /\ nav.ref = deletedOrMissingSha) =>
        (nav.res = UndefV /\ nav.calls = <<>>)

\* C7 (amended): called with the deleted-or-missing sha, getNextUri asks the
\* log subprocess for the commit that added the file (no ref, filter A,
\* reverse order) and resolves to undefined only when that prints nothing;
\* getNextDiffUris goes through getNextUri and never resolves to undefined
C7_NextLooksUpFirstCommit ==
    /\ (nav.fn = "getNextUri" /\ nav.ref = deletedOrMissingSha) =>
          /\ nav.calls # <<>>
          /\ nav.calls[1].cmd = "log__file"
          /\ nav.calls[1].ref = Undef
          /\ nav.calls[1].filters = <<"A">>
          /\ nav.calls[1].reverse
          /\ nav.calls[1].limit = nav.skip + 1
          /\ nav.res = UndefV <=> nav.calls[1].out = "empty"
          /\ nav.res = Rejected <=> nav.calls[Len(nav.calls)].out = "fail"
    /\ (nav.fn = "getNextDiffUris" /\ nav.ref = deletedOrMissingSha) =>
          /\ nav.calls # <<>>
          /\ nav.calls[1].cmd = "log__file"
          /\ nav.calls[1].filters = <<"A">>
          /\ nav.res # UndefV

C7_Witness ==
    /\ nav.fn = "getNextUri"
    /\ nav.ref = deletedOrMissingSha
    /\ nav.skip = 0
    /\ nav.res = fromFile(File, Commit(1))

\* C10: a repository change event made of stash changes only leaves the
\* branches, tags, tracked-file and user caches as they are and queues no
\* repositories-changed notification
C10_StashOnlyKeepsCaches ==
    [][(lastEvent'.n = lastEvent.n + 1 /\ lastEvent'.changes = {"stashes"}) =>
          /\ branchesCache' = branchesCache
          /\ tagsCache' = tagsCache
          /\ trackedCache' = trackedCache
          /\ userMapCache' = userMapCache
          /\ pendingFire' = pendingFire
          /\ notified' = notified]_vars

C10_Witness ==
    /\ lastEvent.changes = {"stashes"}
    /\ lastEvent.repo \in DOMAIN branchesCache
    /\ lastEvent.repo \in DOMAIN tagsCache
    /\ lastEvent.repo \in DOMAIN userMapCache
    /\ trackedCache # <<>>
    /\ pendingFire = 0
    /\ notified = 0

\* C11: with advanced.caching.enabled off no retrieval is answered from a
\* memoized value: no getBranches / getTags call returns its cache entry, and
\* every getBlameForFile call is handed the promise of its own Core function.
C11_DisabledServesNoMemo ==
    ~useCaching =>
        /\ served = {}
        /\ \A t \in 1..RepoCalls :
              pc[t] # "idle" => ret[t] = [k |-> "promise", p |-> t]

\* the folder path is the path, or the path is nested under it
UnderAny(folders, path) == \E i \in 1..Len(folders) : IsPrefix(folders[i], path)

Registered(tree) == {tree[k] : k \in DOMAIN tree}

\* the repositories in the registry when the loop over e.removed starts: the
\* ones created by this step and the earlier ones they did not replace
RegisteredAtRemoval ==
    LET new == (Len(repoPaths) + 1)..Len(repoPaths')
    IN new \cup {i \in Registered(repositoryTree) : \A j \in new : repoPaths'[j] # repoPaths[i]}

\* C12: once a workspace-folder event is handled, no repository at or under
\* a removed folder is registered, each repository that was there has been
\* disposed exactly once, and every other repository is still registered
\* and not disposed.
C12_RemovalPrunes ==
    [][folderEvents' = folderEvents + 1 =>
         /\ \A k \in DOMAIN repositoryTree' : ~UnderAny(lastRemoval', k)
         /\ \A i \in RegisteredAtRemoval :
              IF UnderAny(lastRemoval', repoPaths'[i])
              THEN disposed'[i] = 1 /\ i \notin Registered(repositoryTree')
              ELSE /\ disposed'[i] = 0
                   /\ repoPaths'[i] \in DOMAIN repositoryTree'
                   /\ repositoryTree'[repoPaths'[i]] = i]_vars

\* a folder holding two repositories was removed while a repository outside
\* it stays registered
C12_Witness ==
    /\ handler.st = "idle"
    /\ lastRemoval # <<>>
    /\ Cardinality({i \in 1..Len(repoPaths) :
                      disposed[i] = 1 /\ UnderAny(lastRemoval, repoPaths[i])}) >= 2
    /\ \E k \in DOMAIN repositoryTree : ~UnderAny(lastRemoval, k)

\* the path of the only registered repository, undefined when there is none
\* or more than one
SoleRepoPath(tree) ==
    IF Cardinality(DOMAIN tree) = 1 THEN CHOOSE k \in DOMAIN tree : TRUE ELSE NoPath

\* C16: in every state of the registry getHighlanderRepoPath is the path of
\* the sole registered repository, or undefined when none or several are
\* registered; getRepoPath without a path returns the same.
C16_Highlander ==
    /\ [](getHighlanderRepoPath(repositoryTree, repoPaths) = SoleRepoPath(repositoryTree))
    /\ [][\A c \in PathCallIds :
            (pathCalls[c].st = "idle" /\ pathCalls'[c].st = "done"
             /\ pathCalls'[c].path = NoPath)
            => pathCalls'[c].res = SoleRepoPath(repositoryTree)]_vars

\* getRepoPath() answered the one repository left after a removal
C16_Witness ==
    \E c \in PathCallIds :
        /\ pathCalls[c].st = "done"
        /\ pathCalls[c].path = NoPath
        /\ pathCalls[c].res # NoPath
        /\ DOMAIN repositoryTree = {pathCalls[c].res}
        /\ \E i \in 1..Len(disposed) : disposed[i] = 1

\* C19: a getRepoPath call whose root lookup names no root, or fails, resolves
\* undefined: it is not rejected and registers no repository.
C19_NoRootIsUndefined ==
    [][\A c \in PathCallIds :
         (pathCalls[c].st = "revParse" /\ pathCalls'[c].st # "revParse"
          /\ pathCalls'[c].outcome \in {"none", "error"})
         => /\ pathCalls'[c].st = "done"
            /\ pathCalls'[c].res = NoPath
            /\ repositoryTree' = repositoryTree
            /\ repoPaths' = repoPaths]_vars

\* the lookup of a file outside every repository failed
C19_Witness ==
    \E c \in PathCallIds :
        /\ pathCalls[c].st = "done"
        /\ pathCalls[c].path = <<"x", "f">>
        /\ pathCalls[c].outcome = "error"
        /\ pathCalls[c].res = NoPath

\* the more calls of the query results, and those that fetched a page
StoredMores == {t \in Tasks : IsMore(t) /\ pc[t] = "stored"}

FetchedPage(t) == RetValue(t) # UndefV

\* C13: once every results.more call has completed, the Log held has grown
\* by the page of each call that fetched one: none of the pages is lost.
C13_MoreSerializes ==
    (results # 0 /\ \A t \in Tasks : pc[t] \in {"idle", "stored"})
    => \E q \in Tasks :
          /\ ~IsMore(q)
          /\ pc[q] = "stored"
          /\ logs[results].count
               = logs[RetValue(q).id].count
                 + Cardinality({t \in StoredMores : FetchedPage(t)}) * QueryLimit

\* C14: in every result of getBlameForRangeSync the lineCounts of the authors
\* add up to the number of lines returned, every returned line's sha has a
\* commit, and each author's lineCount is the number of returned lines of
\* that author's commits.
C14_RangeBlameConsistent ==
    util.fn = "getBlameForRangeSync" =>
        LET r == util.res
        IN /\ SumOf(r.authors) = Len(r.lines)
           /\ \A i \in 1..Len(r.lines) : r.lines[i].sha \in DOMAIN r.commits
           /\ \A a \in DOMAIN r.authors :
                r.authors[a] = LinesOf(r.lines, {s \in DOMAIN r.commits : r.commits[s].author = a})

\* a sub-range leaves out lines of an author who stays in the result
C14_Witness ==
    /\ util.fn = "getBlameForRangeSync"
    /\ Len(util.res.lines) < Len(util.whole.lines)
    /\ \E a \in DOMAIN util.res.authors :
          /\ util.res.authors[a] >= 1
          /\ util.res.authors[a] < util.whole.authors[a]

LongOperators == {"message:", "author:", "commit:", "file:", "change:"}

\* the long form of each operator, as the operator reference lists them
LongForm(op) ==
    CASE op \in {"=:", "message:"} -> "message:"
      [] op \in {"@:", "author:"} -> "author:"
      [] op \in {"#:", "commit:"} -> "commit:"
      [] op \in {"?:", "file:"} -> "file:"
      [] op \in {"~:", "change:"} -> "change:"

\* the values typed for the long form op, in the order they were typed
RECURSIVE TypedValues(_, _)
TypedValues(terms, op) ==
    IF terms = <<>> THEN <<>>
    ELSE LET term == Head(terms)
         IN (IF LongForm(term.op) # op THEN <<>>
             ELSE IF op = "message:" THEN term.value.words
             ELSE <<term.value.text>>)
            \o TypedValues(Tail(terms), op)

TypedFreeText(free, op) ==
    IF free.text = <<>> THEN <<>>
    ELSE IF isSha(free.text) THEN (IF op = "commit:" THEN <<free.text>> ELSE <<>>)
    ELSE IF op = "message:" THEN free.words ELSE <<>>

\* C15: parseSearchOperations never returns a shorthand key; under each long
\* form it returns the values typed for that operator, by either spelling, in
\* the order they were typed; and a query of operator terms only, none of them
\* a message term, has no message: entry
C15_OperatorsNormalized ==
    util.fn = "parseSearchOperations" =>
        /\ DOMAIN util.res \subseteq LongOperators
        /\ \A op \in LongOperators :
              LET typed == TypedFreeText(util.free, op) \o TypedValues(util.terms, op)
              IN IF typed = <<>> THEN op \notin DOMAIN util.res
                 ELSE op \in DOMAIN util.res /\ util.res[op] = typed
        /\ (/\ util.free.text = <<>>
            /\ \A i \in DOMAIN util.terms : LongForm(util.terms[i].op) # "message:")
              => "message:" \notin DOMAIN util.res

\* the query '@:alice #:deadbeef123' was parsed
C15_Witness ==
    /\ util.fn = "parseSearchOperations"
    /\ util.search = <<"@:", "alice", Blank, "#:", "deadbeef123">>
    /\ DOMAIN util.res = {"author:", "commit:"}
    /\ util.res["author:"] = << <<"alice">> >>
    /\ util.res["commit:"] = << <<"deadbeef123">> >>

\* the directory names an enabled entry of the setting matches
EnabledNames(setting) == {k.name : k \in {e \in DOMAIN setting : setting[e]}}

\* C17: repositorySearch lists no directory, the folder itself aside, whose
\* name an enabled entry of files.exclude or of search.exclude matches, and
\* returns no repository at or beneath such a directory
C17_ExcludedNeverListed ==
    util.fn = "repositorySearch" =>
        LET enabled == EnabledNames(util.filesExclude) \cup EnabledNames(util.searchExclude)
            Excluded(d) == \E i \in 2..Len(d) : d[i] \in enabled
        IN /\ \A d \in util.res.listed : ~Excluded(d)
           /\ \A i \in 1..Len(util.res.repositories) : ~Excluded(util.res.repositories[i])

\* the directories from the folder down to d
DirsDownTo(d) == {SubSeq(d, 1, n) : n \in 1..Len(d)}

\* C18: repositorySearch never rejects, whatever directories cannot be read;
\* it returns the root repository and every repository whose directory lies
\* within the search depth, beneath readable directories only, and has no
\* name on its path that an exclude entry mentions
C18_UnreadableTolerated ==
    util.fn = "repositorySearch" =>
        LET mentioned == {k.name : k \in DOMAIN util.filesExclude \cup DOMAIN util.searchExclude}
            found == SeqSet(util.res.repositories)
        IN /\ ~util.res.rejected
           /\ ScanRoot \in util.disk.gits => ScanRoot \in found
           /\ \A d \in util.disk.gits :
                (/\ util.depth >= 1
                 /\ Len(d) - 1 <= util.depth
                 /\ DirsDownTo(d) \cap util.disk.unreadable = {}
                 /\ \A i \in 2..Len(d) : d[i] \notin mentioned)
                => d \in found
           /\ found \subseteq util.disk.gits

\* a directory two levels down could not be read, and the repositories in
\* its sibling and in the directory above it were returned
C18_Witness ==
    /\ util.fn = "repositorySearch"
    /\ util.depth = 2
    /\ util.disk.unreadable = {<<"w", "a", "b">>}
    /\ util.disk.gits = {<<"w">>, <<"w", "a">>, <<"w", "a", "b">>, <<"w", "a", "x">>, <<"w", "x">>}
    /\ DOMAIN util.filesExclude = {} /\ DOMAIN util.searchExclude = {}
    /\ SeqSet(util.res.repositories) = {<<"w">>, <<"w", "a">>, <<"w", "a", "x">>, <<"w", "x">>}

\* the installed git is older than 2.13.2
OlderThan2132(v) ==
    \/ v.major < 2
    \/ v.major = 2 /\ v.minor < 13
    \/ v.major = 2 /\ v.minor = 13 /\ v.patch < 2

\* C20: stashSave with uris throws without any stash call when git is older
\* than 2.13.2 and makes one stash call with a pathspec per uri otherwise;
\* stashSave without uris makes the stash call without a version check
C20_VersionCheckedEagerly ==
    util.fn = "stashSave" =>
        LET r == util.res
        IN IF util.uris = None
           THEN ~r.threw /\ ~r.ensured /\ Len(r.calls) = 1 /\ r.calls[1].pathspecs = None
           ELSE IF OlderThan2132(util.gitVersion)
           THEN r.threw /\ r.calls = <<>>
           ELSE /\ ~r.threw
                /\ Len(r.calls) = 1
                /\ r.calls[1].pathspecs # None
                /\ Len(r.calls[1].pathspecs[1]) = Len(util.uris[1])

\* individual files were stashed with git 2.13.1 and the call threw
C20_Witness ==
    /\ util.fn = "stashSave"
    /\ util.gitVersion = [major |-> 2, minor |-> 13, patch |-> 1]
    /\ util.uris = Some(<<"f", "g">>)
    /\ util.res.threw
    /\ util.res.calls = <<>>

\* C21: applyChangesToWorkingFile calls Git.apply at most twice; the second
\* call allows conflicts and is made only after the first failed with 'patch
\* does not apply' and the prompt was answered Yes; after any other failure,
\* or an answer other than Yes, there is one call at most
C21_RetryOnlyWhenConfirmed ==
    util.fn = "applyChangesToWorkingFile" =>
        /\ Len(util.applies) <= 2
        /\ util.prompts <= 1
        /\ Len(util.applies) = 2 =>
              /\ ~util.applies[1].allowConflicts
              /\ util.applies[2].allowConflicts
              /\ util.failure \in {"error: patch does not apply", "error: Patch Does Not Apply"}
              /\ util.prompts = 1
              /\ util.answer = "Yes"
        /\ (\/ util.failure = "fatal: bad revision"
            \/ util.answer \in {Undef, "No"}
            \/ util.patch = Undef) => Len(util.applies) <= 1

\* the first apply failed with 'patch does not apply', the user answered Yes
\* and the second apply has settled
C21_Witness ==
    /\ util.fn = "applyChangesToWorkingFile"
    /\ util.st = "done"
    /\ Len(util.applies) = 2
    /\ util.answer = "Yes"

\* C22: getPullRequestForCommit resolves; when the timeout elapses before a
\* lookup has yielded a pull request the result has the timeout flag and no
\* item; when a lookup yielded a pull request first (a cached one, or else the
\* first request to settle with one) the result holds that pull request and
\* its remote and no timeout flag
C22_FirstLookupOrTimeout ==
    (util.fn = "getPullRequestForCommit" /\ util.returned = "pr") =>
        LET yielded == IF util.cached # NoPR THEN util.cached ELSE util.first
        IN IF yielded # NoPR
           THEN util.item = yielded /\ util.remote = yielded.of /\ ~util.timeout
           ELSE util.elapsed => (util.timeout /\ util.item = NoPR)

\* more({ until: sha }), called by t, has returned
UntilReturned(t) == MoreReturned(t) /\ cont[t].until # Undef

RetrievalFailed(t) ==
    /\ req[t].op \in {"diff", "logFile"}
    /\ ~req[t].range
    /\ outcome[t] = "fail"
    /\ resets = 0

\* C24: with caching enabled, after a getDiffForFile or getLogForFile
\* retrieval without a line range failed, in forward or reverse order, the
\* cache entry of its key is the empty sentinel carrying the error text, and
\* no other call for that key invokes the subprocess
C24_FailureCached ==
    useCaching =>
        \A t \in Tasks :
            RetrievalFailed(t) =>
                /\ docState.defined
                /\ Key(req[t]) \in DOMAIN docState.map
                /\ docState.map[Key(req[t])] = Entry(emptyPromise, ErrorText(t))
                /\ \A u \in Tasks \ {t} :
                      (pc[u] # "idle" /\ ~IsMore(u) /\ req[u].op = req[t].op
                       /\ Key(req[u]) = Key(req[t])) => ~spawned[u]

\* the cached lists a getBranches or getTags call wrote although a change
\* event of its repository came while its subprocess ran
StaleLists == {f \in overtaken : f \notin fetching}

\* C25: a change event of repository R that is not stash-only removes the
\* cached branches and tags of R and no others, and removes the cached user
\* of R exactly when it includes a config change; and the lists of R stay
\* uncached until a getBranches / getTags call made after the event has
\* invoked the subprocess
C25_EventInvalidates ==
    /\ [](StaleLists = {})
    /\ [][(lastEvent'.n = lastEvent.n + 1 /\ lastEvent'.changes # {"stashes"}) =>
             LET R == lastEvent'.repo
             IN /\ R \notin DOMAIN branchesCache'
                /\ R \notin DOMAIN tagsCache'
                /\ \A r \in Repos \ {R} :
                      /\ r \in DOMAIN branchesCache' <=> r \in DOMAIN branchesCache
                      /\ r \in DOMAIN tagsCache' <=> r \in DOMAIN tagsCache
                /\ userMapCache' = IF "config" \in lastEvent'.changes
                                   THEN Remove(userMapCache, R)
                                   ELSE userMapCache]_vars

\* C26: a blame or file-log retrieval for the deleted-or-missing revision
\* never starts the ls-files subprocess nor the blame or log subprocess, and
\* once settled its value is undefined
SentinelCall(t) ==
    /\ pc[t] # "idle"
    /\ req[t].op \in {"blame", "logFile"}
    /\ TrackedRef(req[t]) = deletedOrMissingSha

C26_SentinelUntracked ==
    \A t \in Tasks :
        SentinelCall(t) =>
            /\ ls[t].st # "pending"
            /\ ~spawned[t]
            /\ RetSettled(t) => RetValue(t) = UndefV

C26_Witness ==
    /\ fileTracked
    /\ \E t, u \in Tasks :
          /\ SentinelCall(t) /\ req[t].op = "blame" /\ RetSettled(t)
          /\ ls[t] = Resolved(FALSE)
          /\ SentinelCall(u) /\ req[u].op = "logFile" /\ RetSettled(u)
          /\ ls[u] = NoPromise

\* C27: a query that is a single bare full sha is parsed to one commit:
\* operation holding the sha, and getLogForSearch then asks for show mode with
\* the sha among the arguments and none of --all, --full-history, --grep=,
\* --author= and -G
HistorySearchArg(arg) ==
    \/ arg \in {<<"--all">>, <<"--full-history">>}
    \/ Head(arg) \in {"--grep=", "--author=", "-G"}

BareShaQuery ==
    /\ util.fn = "getLogForSearch"
    /\ Len(util.pattern) = 1
    /\ util.pattern[1] \in ShaWords

C27_BareShaIsCommitLookup ==
    BareShaQuery =>
        /\ util.operations = [k \in {"commit:"} |-> <<util.pattern>>]
        /\ util.res.useShow
        /\ util.pattern \in util.res.searchArgs
        /\ \A arg \in util.res.searchArgs : ~HistorySearchArg(arg)
        /\ util.res.files = <<>>

C27_Witness ==
    /\ BareShaQuery
    /\ util.res.searchArgs = {<<"-m">>, <<"-M50%">>, util.pattern}

\* the directory d lies within the search depth of the folder, and no
\* directory on the way down to it has a name the merged settings exclude
WithinDepth(d) == Len(d) - 1 <= util.depth

NotExcluded(d) ==
    \A i \in 2..Len(d) :
        d[i] \notin ExcludedPaths(MergeExcludes(util.filesExclude, util.searchExclude))

Readable(d) == DirsDownTo(d) \cap util.disk.unreadable = {}

RootOnly ==
    /\ SeqSet(util.res.repositories) = {ScanRoot} \cap util.disk.gits
    /\ util.res.listed = {}

C29_DirtyBlameArmsFlag ==
    (util.fn = "blameProvider" /\ util.last \in {"construct", "reset"} /\ util.editor) =>
        IF util.dirty
        THEN util.source = "contents" /\ util.armed
        ELSE util.source = "file" /\ ~util.armedNow

\* C30: every repository in the registry is suspended exactly when the
\* window is unfocused, the service's flag following the last window state
\* event
C30_SuspendedIffUnfocused ==
    \A k \in DOMAIN repositoryTree : repoSuspended[repositoryTree[k]] = suspended

\* C31: a getDiffForFile call that is handed the promise of another call's
\* retrieval asked for the same ref1 and the same ref2 as that call
C31_DiffKeyedByPair ==
    \A t \in Tasks :
        (pc[t] # "idle" /\ req[t].op = "diff" /\ ret[t].k = "promise" /\ ret[t].p \in Tasks) =>
            /\ req[ret[t].p].ref1 = req[t].ref1
            /\ req[ret[t].p].ref2 = req[t].ref2

\* C32: the document state holds nothing of a retrieval that was started
\* before the state was reset: neither its promise nor the error entry its
\* failure writes (a file log cut from a cached whole log starts its retrieval
\* only after awaiting that log and is left aside)
StartedBeforeReset(t) ==
    /\ resetSeen[t]
    /\ ~(req[t].op = "logFile" /\ req[t].ref # Undef)

C32_ResetDropsInFlight ==
    \A t \in Tasks, key \in DOMAIN docState.map :
        StartedBeforeReset(t) =>
            /\ docState.map[key].item # t
            /\ docState.map[key].errorMessage # ErrorText(t)

\* C33: no list of a fetch that a change event overtook is in the branches or
\* tags cache, and an ls-files call that ends stores its answer only where
\* its own promise still is, that is, when no event has emptied the
\* tracked-file cache since it started
C33_NoPreEventValue ==
    /\ [](\A f \in overtaken \ fetching :
             /\ f.kind = "branches" => f.repo \notin DOMAIN branchesCache
             /\ f.kind = "tags" => f.repo \notin DOMAIN tagsCache)
    /\ [][\A t \in Tasks :
             (/\ ls[t].st = "pending"
              /\ ls'[t].st = "resolved"
              /\ TrackedKey(req[t]) \in DOMAIN trackedCache')
                => TrackedKey(req[t]) \in DOMAIN trackedCache]_vars

\* C34: every Repository the service has created and not disposed is the
\* entry of the registry under its own path
C34_CreatedIsRegistered ==
    \A i \in 1..Len(repoPaths) :
        (i > Len(disposed) \/ disposed[i] = 0) =>
            /\ repoPaths[i] \in DOMAIN repositoryTree
            /\ repositoryTree[repoPaths[i]] = i

\* the call was answered by a copy of the cached log of the whole file
FromWholeLog(t) ==
    /\ pc[t] = "returned"
    /\ req[t].op = "logFile"
    /\ req[t].ref # Undef
    /\ ret[t].k = "value"

\* the commits of a log from ref on, in the order of the log
FromRef(commits, ref) ==
    SubSeq(commits, CHOOSE i \in 1..Len(commits) : commits[i] = ref, Len(commits))

\* C35: a log answered from the cached log of the whole file starts at ref,
\* holds the commits from ref on in the cached order, at most limit of them
\* when limit is positive and all of them when limit is 0, and counts them
C35_CopyStartsAtRef ==
    \A t \in Tasks :
        FromWholeLog(t) =>
            LET log  == logs[ret[t].v.id]
                rest == FromRef(Hist, req[t].ref)
            IN /\ log.commits = IF req[t].limit = 0 THEN rest
                                ELSE SubSeq(rest, 1, Min(req[t].limit, Len(rest)))
               /\ log.count = Len(log.commits)

\* the call for a log of the file has returned a Log
ReturnedFileLog(t) ==
    /\ pc[t] = "returned"
    /\ req[t].op = "logFile"
    /\ RetSettled(t)
    /\ RetValue(t).kind = "log"

\* the history of the file the request asks for, were there no limit
Unlimited(r) == IF r.ref = Undef THEN Hist ELSE FromRef(Hist, r.ref)

\* C36: a Log of getLogForFile that a positive limit has cut short of the
\* file's history has hasMore and a more continuation, whether it was parsed
\* or copied from the cached log of the whole file
C36_CutLogHasMore ==
    \A t \in Tasks :
        (/\ ReturnedFileLog(t)
         /\ req[t].limit > 0
         /\ Len(logs[RetValue(t).id].commits) < Len(Unlimited(req[t])))
            => /\ logs[RetValue(t).id].hasMore
               /\ logs[RetValue(t).id].more # 0

\* C37: in every Log returned by getLog, getLogForFile or getLogForSearch and
\* in every Log a more continuation has returned, count is the number of
\* entries of commits
C37_CountIsSize ==
    \A id \in 1..Len(logs) : logs[id].count = Len(logs[id].commits)

\* the calls of getPullRequestForCommitCore that have not returned
PrInFlight == {n \in 1..Len(util.cores) : util.cores[n].pc # "done"}

\* C38: calls of getPullRequestForCommit for one ref that overlap share one
\* lookup; a lookup that failed leaves no entry; and no entry of the cache
\* comes from a lookup begun before the last disconnect or clearing of the
\* credentials
C38_PrCacheFresh ==
    util.fn = "prCache" =>
        /\ \A n \in PrInFlight, m \in PrInFlight :
              (util.cores[n].ref = util.cores[m].ref
               /\ util.cores[n].epoch = util.cores[m].epoch) => n = m
        /\ \A ref \in DOMAIN util.prsByCommit :
              util.cores[util.prsByCommit[ref].by].result # "fail"
        /\ \A ref \in DOMAIN util.prsByCommit :
              util.cores[util.prsByCommit[ref].by].epoch = util.clears

\* C39: every call of getWorkingUri resolves
C39_WorkingUriResolves ==
    (util.fn = "workingUri") ~> (util.fn = "workingUri" /\ util.pc = "done")

\* the search of a folder ends after an event has removed that folder
SearchOvertaken ==
    /\ handler.st = "search"
    /\ handler'.st = "idle"
    /\ Head(handler.added) \in SeqSet(lastRemoval)

\* C40: when the search of a folder ends after the folder has been removed,
\* no repository the search found for it is in the registry
C40_RemovedFolderLeavesNone ==
    [][SearchOvertaken =>
          \A k \in DOMAIN repositoryTree' : repositoryTree'[k] <= Len(repoPaths)]_vars

====
